---------------------------- MODULE Spec2Model ----------------------------
(***************************************************************************)
(* A model of the syllabus builder: the Google Sheets configuration        *)
(* normaliser (sheets_fetcher.py) and the build driver (build.py).         *)
(*                                                                         *)
(* Python strings are TLA+ strings; a Python list is a sequence; a Python  *)
(* dict with string keys is a function whose domain is its key set; a      *)
(* worksheet row (a dict that keeps its column order) is a sequence of     *)
(* <<header, value>> pairs.                                                *)
(***************************************************************************)
EXTENDS Integers, Sequences, FiniteSets, TLC

(***************************************************************************)
(* Python str operations, computed character by character.                 *)
(***************************************************************************)

\* c.isspace() for the whitespace characters a cell can hold
IsSpace(c) == c \in {" ", "\t", "\n", "\r"}

CharAt(s, i) == SubSeq(s, i, i)

RECURSIVE LStrip(_)
LStrip(s) ==
    IF s # "" /\ IsSpace(Head(s)) THEN LStrip(Tail(s)) ELSE s

RECURSIVE RStrip(_)
RStrip(s) ==
    IF s # "" /\ IsSpace(CharAt(s, Len(s)))
    THEN RStrip(SubSeq(s, 1, Len(s) - 1))
    ELSE s

\* str.strip()
Strip(s) == RStrip(LStrip(s))

\* 1-based index of the first occurrence of sub in s, 0 when there is none
Find(s, sub) ==
    LET hits == {i \in 1..(Len(s) - Len(sub) + 1) : SubSeq(s, i, i + Len(sub) - 1) = sub}
    IN  IF hits = {} THEN 0 ELSE CHOOSE i \in hits : \A j \in hits : i <= j

\* sub in s
Contains(s, sub) == Find(s, sub) # 0

\* str.split(sep): empty parts are kept
RECURSIVE Split(_, _)
Split(s, sep) ==
    LET i == Find(s, sep)
    IN  IF i = 0
        THEN <<s>>
        ELSE <<SubSeq(s, 1, i - 1)>> \o Split(SubSeq(s, i + Len(sep), Len(s)), sep)

\* str.split(): runs of whitespace separate, no empty parts
RECURSIVE SplitWs(_)
SplitWs(s) ==
    LET t == LStrip(s)
        ws == {i \in 1..Len(t) : IsSpace(CharAt(t, i))}
        j == IF ws = {} THEN Len(t) + 1 ELSE CHOOSE i \in ws : \A k \in ws : i <= k
    IN  IF t = ""
        THEN <<>>
        ELSE <<SubSeq(t, 1, j - 1)>> \o SplitWs(SubSeq(t, j, Len(t)))

\* str.replace(old, new), old non-empty
RECURSIVE Replace(_, _, _)
Replace(s, old, new) ==
    LET i == Find(s, old)
    IN  IF i = 0
        THEN s
        ELSE SubSeq(s, 1, i - 1) \o new \o Replace(SubSeq(s, i + Len(old), Len(s)), old, new)

UpperLetters == "ABCDEFGHIJKLMNOPQRSTUVWXYZ"
LowerLetters == "abcdefghijklmnopqrstuvwxyz"

\* the character of `to` at the place c has in `from`, c itself when it has none
MapChar(c, from, to) ==
    LET i == Find(from, c) IN IF i = 0 THEN c ELSE CharAt(to, i)

RECURSIVE MapChars(_, _, _)
MapChars(s, from, to) ==
    IF s = "" THEN ""
    ELSE IF Len(s) = 1 THEN MapChar(s, from, to)
    ELSE MapChars(SubSeq(s, 1, Len(s) \div 2), from, to)
         \o MapChars(SubSeq(s, Len(s) \div 2 + 1, Len(s)), from, to)

\* str.lower() and str.upper()
Lower(s) == MapChars(s, UpperLetters, LowerLetters)
Upper(s) == MapChars(s, LowerLetters, UpperLetters)

Digits == "0123456789"
IsDigit(c) == c # "" /\ Find(Digits, c) # 0
DigitVal(c) == Find(Digits, c) - 1

\* the decimal value of a string of digits and underscores (underscores skipped)
RECURSIVE DigitsVal(_, _)
DigitsVal(s, acc) ==
    IF s = "" THEN acc
    ELSE IF Head(s) = "_" THEN DigitsVal(Tail(s), acc)
    ELSE DigitsVal(Tail(s), 10 * acc + DigitVal(Head(s)))

\* Python's integer literal body: digits, single underscores only between digits
IsIntBody(s) ==
    /\ s # ""
    /\ \A i \in 1..Len(s) :
          \/ IsDigit(CharAt(s, i))
          \/ /\ CharAt(s, i) = "_"
             /\ 1 < i /\ i < Len(s)
             /\ IsDigit(CharAt(s, i - 1)) /\ IsDigit(CharAt(s, i + 1))

\* int(s) for a str s: [ok |-> TRUE, val |-> n], or [ok |-> FALSE] for ValueError
ParseInt(s) ==
    LET t == Strip(s)
        signed == t # "" /\ Head(t) \in {"+", "-"}
        body == IF signed THEN Tail(t) ELSE t
    IN  IF IsIntBody(body)
        THEN [ok |-> TRUE,
              val |-> IF signed /\ Head(t) = "-" THEN 0 - DigitsVal(body, 0)
                      ELSE DigitsVal(body, 0)]
        ELSE [ok |-> FALSE]

(***************************************************************************)
(* Python containers.                                                      *)
(***************************************************************************)

\* {} : the dict with no key
EmptyDict == [k \in {} |-> k]

\* d[k] = v on a dict with string keys
DictPut(d, k, v) == (k :> v) @@ d

\* d.get(k, default)
DictGet(d, k, default) == IF k \in DOMAIN d THEN d[k] ELSE default

RECURSIVE FoldLeft(_, _, _)
FoldLeft(op(_, _), acc, s) ==
    IF s = <<>> THEN acc
    ELSE CHOOSE result \in {FoldLeft(op, next, Tail(s)) : next \in {op(acc, Head(s))}} : TRUE

\* [f(e) for e in s if keep(e)]
RECURSIVE Comprehend(_, _, _)
Comprehend(f(_), keep(_), s) ==
    IF s = <<>> THEN <<>>
    ELSE (IF keep(Head(s)) THEN <<f(Head(s))>> ELSE <<>>) \o Comprehend(f, keep, Tail(s))

\* [p.strip() for p in parts if p.strip()]
StripNonEmpty(parts) == Comprehend(LAMBDA p : Strip(p), LAMBDA p : Strip(p) # "", parts)

\* A worksheet row: the dict built from the header row, in column order.
\* key in record
HasKey(record, key) == \E i \in 1..Len(record) : record[i][1] = key

\* record.get(key, default)
Get(record, key, default) ==
    IF HasKey(record, key)
    THEN record[CHOOSE i \in 1..Len(record) : record[i][1] = key][2]
    ELSE default

\* record[key] = value: a key already there keeps its place
RowPut(record, key, value) ==
    IF HasKey(record, key)
    THEN [i \in 1..Len(record) |->
            IF record[i][1] = key THEN <<key, value>> ELSE record[i]]
    ELSE Append(record, <<key, value>>)

\* list(record.keys()) and any(record.values())
RowKeys(record) == [i \in 1..Len(record) |-> record[i][1]]
AnyValue(record) == \E i \in 1..Len(record) : record[i][2] # ""

(***************************************************************************)
(* Exceptions: an operation either returns a value or raises.              *)
(***************************************************************************)
Raised == [exc |-> TRUE]
Ok(v) == [exc |-> FALSE, val |-> v]

(***************************************************************************)
(* SheetsFetcher: the worksheet cache.                                     *)
(* A spreadsheet is [ok, worksheets]: ok is whether open_by_key succeeds,  *)
(* worksheets the list of [title, values, readable], values being the rows *)
(* of cells get_all_values returns, header row first.                      *)
(***************************************************************************)

\* the record of one row of cells under the header row
RowRecord(headers, row) ==
    LET step(record, i) ==
            IF headers[i] # ""
            THEN RowPut(record, headers[i], IF i <= Len(row) THEN row[i] ELSE "")
            ELSE record
    IN  FoldLeft(step, <<>>, [i \in 1..Len(headers) |-> i])

\* the records of one worksheet, as _prefetch_all_worksheets caches them
WorksheetRecords(ws) ==
    IF ~ws.readable THEN <<>>
    ELSE IF Len(ws.values) > 1
    THEN LET headers == ws.values[1]
             records == [i \in 1..(Len(ws.values) - 1) |->
                            RowRecord(headers, ws.values[i + 1])]
         IN  Comprehend(LAMBDA r : r, AnyValue, records)
    ELSE <<>>

\* The fetcher's state is [cache, sheet_id]: _worksheet_cache and
\* _current_sheet_id (NoSheet for None).
NoSheet == ""
NewFetcher == [cache |-> EmptyDict, sheet_id |-> NoSheet]

\* _prefetch_all_worksheets when a failure to open the new spreadsheet leaves
\* the worksheets cached before in place
prefetch_all_worksheets_keeping_cache(fetcher, spreadsheets, sheet_id) ==
    IF fetcher.sheet_id = sheet_id /\ fetcher.cache # EmptyDict
    THEN [exc |-> FALSE, fetcher |-> fetcher, fetched |-> FALSE]
    ELSE IF ~spreadsheets[sheet_id].ok
    THEN [exc |-> TRUE, fetcher |-> [cache |-> fetcher.cache, sheet_id |-> sheet_id],
          fetched |-> FALSE]
    ELSE [exc |-> FALSE,
          fetcher |-> [cache |-> FoldLeft(LAMBDA c, ws : DictPut(c, ws.title, WorksheetRecords(ws)),
                                          EmptyDict, spreadsheets[sheet_id].worksheets),
                       sheet_id |-> sheet_id],
          fetched |-> TRUE]

\* _prefetch_all_worksheets: the fetcher afterwards, and whether it raised
prefetch_all_worksheets(fetcher, spreadsheets, sheet_id) ==
    IF fetcher.sheet_id = sheet_id /\ fetcher.cache # EmptyDict
    THEN [exc |-> FALSE, fetcher |-> fetcher, fetched |-> FALSE]
    ELSE IF ~spreadsheets[sheet_id].ok
    THEN [exc |-> TRUE, fetcher |-> [cache |-> EmptyDict, sheet_id |-> sheet_id],
          fetched |-> FALSE]
    ELSE LET wss == spreadsheets[sheet_id].worksheets
             cache == FoldLeft(LAMBDA c, ws : DictPut(c, ws.title, WorksheetRecords(ws)),
                               EmptyDict, wss)
         IN  [exc |-> FALSE, fetcher |-> [cache |-> cache, sheet_id |-> sheet_id],
              fetched |-> TRUE]

\* the worksheet of a spreadsheet with this title, <<>> when there is none
WorksheetNamed(spreadsheet, name) ==
    Comprehend(LAMBDA ws : ws, LAMBDA ws : ws.title = name, spreadsheet.worksheets)

\* get_all_records that always fetches directly
get_all_records_uncached(fetcher, spreadsheets, sheet_id, worksheet_name) ==
    IF ~spreadsheets[sheet_id].ok THEN Raised
    ELSE IF WorksheetNamed(spreadsheets[sheet_id], worksheet_name) = <<>> THEN Raised
    ELSE IF ~WorksheetNamed(spreadsheets[sheet_id], worksheet_name)[1].readable THEN Raised
    ELSE Ok(WorksheetRecords(WorksheetNamed(spreadsheets[sheet_id], worksheet_name)[1]))

\* get_all_records: the cached records, or the direct fetch, which raises when
\* the spreadsheet cannot be opened or has no worksheet of that name
get_all_records(fetcher, spreadsheets, sheet_id, worksheet_name) ==
    IF fetcher.sheet_id = sheet_id /\ worksheet_name \in DOMAIN fetcher.cache
    THEN Ok(fetcher.cache[worksheet_name])
    ELSE IF ~spreadsheets[sheet_id].ok THEN Raised
    ELSE LET found == WorksheetNamed(spreadsheets[sheet_id], worksheet_name)
         IN  IF found = <<>> \/ ~found[1].readable THEN Raised
             ELSE Ok(WorksheetRecords(found[1]))

\* whether get_all_records answers from the worksheet cache
answered_from_cache(fetcher, sheet_id, worksheet_name) ==
    fetcher.sheet_id = sheet_id /\ worksheet_name \in DOMAIN fetcher.cache

(***************************************************************************)
(* _fetch_instructors                                                      *)
(***************************************************************************)

\* section_details keyed by the Section cell as written, not trimmed
section_details_by_raw_cell(lecture_records) ==
    LET step(details, record) ==
            LET section_num == Get(record, "Section", "")
            IN  IF section_num # ""
                THEN DictPut(details, section_num,
                             [number |-> section_num,
                              days |-> Get(record, "Days", ""),
                              time |-> Get(record, "Time", ""),
                              location |-> Get(record, "Location", "TBD")])
                ELSE details
    IN  FoldLeft(step, EmptyDict, lecture_records)

\* section_details: section number -> details, from the Lecture Sections rows
section_details_of(lecture_records) ==
    LET step(details, record) ==
            LET section_num == Strip(Get(record, "Section", ""))
            IN  IF section_num # ""
                THEN DictPut(details, section_num,
                             [number |-> section_num,
                              days |-> Get(record, "Days", ""),
                              time |-> Get(record, "Time", ""),
                              location |-> Get(record, "Location", "TBD")])
                ELSE details
    IN  FoldLeft(step, EmptyDict, lecture_records)

\* office_hours_by_instructor: instructor name -> office-hours entries
office_hours_of(oh_records) ==
    LET step(by_instructor, record) ==
            LET instructor_name == Strip(Get(record, "Instructor", ""))
                oh_entry == [day |-> Get(record, "Day", ""),
                             time |-> Get(record, "Time", ""),
                             location |-> Get(record, "Location", ""),
                             type |-> Get(record, "Type", "Drop-in")]
            IN  IF instructor_name = ""
                THEN by_instructor
                ELSE DictPut(by_instructor, instructor_name,
                             Append(DictGet(by_instructor, instructor_name, <<>>), oh_entry))
    IN  FoldLeft(step, EmptyDict, oh_records)

\* the section numbers of an instructor's Sections value: comma first, then
\* semicolon, then whitespace, then the single value
instructor_section_nums(sections_str) ==
    IF Contains(sections_str, ",") THEN StripNonEmpty(Split(sections_str, ","))
    ELSE IF Contains(sections_str, ";") THEN StripNonEmpty(Split(sections_str, ";"))
    ELSE IF Contains(sections_str, " ") THEN StripNonEmpty(SplitWs(sections_str))
    ELSE <<Strip(sections_str)>>

\* one listed section with its details, empty details when the section is unknown
enriched_section(section_details, sec_num) ==
    IF sec_num \in DOMAIN section_details
    THEN section_details[sec_num]
    ELSE [number |-> sec_num, days |-> "", time |-> "", location |-> ""]

\* the id of an instructor row: its ID, or its lowercased name with dashes
instructor_id_of(record, instructor_name) ==
    IF Strip(Get(record, "ID", "")) # ""
    THEN Strip(Get(record, "ID", ""))
    ELSE Replace(Lower(instructor_name), " ", "-")

\* the instructor built from one Instructors row
instructor_of(record, section_details, office_hours_by_instructor) ==
    LET instructor_name == Get(record, "Name", "")
        sections_str == Get(record, "Sections", "")
        base == [id |-> instructor_id_of(record, instructor_name),
                 name |-> instructor_name,
                 title |-> Get(record, "Title", "Instructor"),
                 email |-> Get(record, "Email", ""),
                 office |-> Get(record, "Office", ""),
                 sections |->
                    IF sections_str # ""
                    THEN LET section_nums == instructor_section_nums(sections_str)
                         IN  [i \in 1..Len(section_nums) |->
                                enriched_section(section_details, section_nums[i])]
                    ELSE <<>>,
                 office_hours |-> DictGet(office_hours_by_instructor, instructor_name, <<>>)]
    IN  IF Get(record, "Pronouns", "") # ""
        THEN DictPut(base, "pronouns", Get(record, "Pronouns", ""))
        ELSE base

\* the Office Hours records read with no handler of their own
office_hours_records_unguarded(fetcher, spreadsheets, sheet_id) ==
    get_all_records(fetcher, spreadsheets, sheet_id, "Office Hours")

\* the Office Hours records, none when the tab cannot be read (inner try)
office_hours_records(fetcher, spreadsheets, sheet_id) ==
    LET oh == get_all_records(fetcher, spreadsheets, sheet_id, "Office Hours")
    IN  IF oh.exc THEN Ok(<<>>) ELSE oh

fetch_instructors(fetcher, spreadsheets, sheet_id) ==
    LET lecture == get_all_records(fetcher, spreadsheets, sheet_id, "Lecture Sections")
        section_details == IF lecture.exc THEN EmptyDict ELSE section_details_of(lecture.val)
        oh == office_hours_records(fetcher, spreadsheets, sheet_id)
        records == get_all_records(fetcher, spreadsheets, sheet_id, "Instructors")
    IN  IF oh.exc \/ records.exc
        THEN Ok(<<>>)
        ELSE Ok(Comprehend(LAMBDA r : instructor_of(r, section_details, office_hours_of(oh.val)),
                           LAMBDA r : Get(r, "Name", "") # "",
                           records.val))

(***************************************************************************)
(* _get_time_period, _calculate_time_range, _fetch_lecture_sections        *)
(***************************************************************************)

\* an AM/PM adjustment that adds twelve hours to every PM hour, noon included
adjusted_hour_adding_to_noon(hour, start_time_lower) ==
    IF Contains(start_time_lower, "pm") THEN hour + 12
    ELSE IF Contains(start_time_lower, "am") /\ hour = 12 THEN 0
    ELSE hour

\* the hour of a start time after the AM/PM adjustment
adjusted_hour(hour, start_time_lower) ==
    IF Contains(start_time_lower, "pm") /\ hour # 12 THEN hour + 12
    ELSE IF Contains(start_time_lower, "am") /\ hour = 12 THEN 0
    ELSE hour

get_time_period(time_str) ==
    IF time_str = "" THEN "Morning"
    ELSE LET start_time == Strip(Split(time_str, "-")[1])
             start_time_lower == Lower(start_time)
             hour_part == Strip(Split(start_time, ":")[1])
             parsed == ParseInt(hour_part)
             hour == adjusted_hour(parsed.val, start_time_lower)
         IN  IF ~parsed.ok THEN "Morning"
             ELSE IF hour < 10 THEN "Morning"
             ELSE IF hour < 12 THEN "Late Morning"
             ELSE IF hour < 17 THEN "Afternoon"
             ELSE "Evening"

calculate_time_range(times) ==
    IF times = <<>> THEN ""
    ELSE LET last == Split(times[Len(times)], "-")
         IN  Strip(Split(times[1], "-")[1]) \o " - " \o Strip(last[Len(last)])

\* section_to_instructor: section number -> the instructor listing it
lookup_section_nums(sections_str) ==
    IF Contains(sections_str, ",") THEN StripNonEmpty(Split(sections_str, ","))
    ELSE IF Contains(sections_str, ";") THEN StripNonEmpty(Split(sections_str, ";"))
    ELSE IF Contains(sections_str, " ") THEN StripNonEmpty(SplitWs(sections_str))
    ELSE <<Strip(sections_str)>>

section_to_instructor_of(instructor_records) ==
    LET step(by_section, record) ==
            LET instructor_name == Get(record, "Name", "")
                instructor_id == instructor_id_of(record, instructor_name)
                sections_str == Get(record, "Sections", "")
            IN  IF sections_str # "" /\ instructor_name # ""
                THEN FoldLeft(LAMBDA m, sec_num :
                                 DictPut(m, sec_num, [name |-> instructor_name,
                                                      id |-> instructor_id]),
                              by_section, lookup_section_nums(sections_str))
                ELSE by_section
    IN  FoldLeft(step, EmptyDict, instructor_records)

\* the key a lecture row is looked up by in section_to_instructor
section_lookup_key(record) == Get(record, "Section", "")

\* a section emitted without the fallback to the Instructors mapping
lecture_section_without_fallback(record, section_to_instructor) ==
    LET own_name == Get(record, "Instructor", "")
    IN  [number |-> Get(record, "Section", ""),
         time |-> Get(record, "Time", ""),
         location |-> Get(record, "Location", "TBD"),
         instructor |-> IF own_name = "" THEN "TBD" ELSE own_name,
         instructor_id |-> Get(record, "Instructor ID", "")]

\* the section emitted for one Lecture Sections row
lecture_section_of(record, section_to_instructor) ==
    LET section_num == section_lookup_key(record)
        own_name == Get(record, "Instructor", "")
        own_id == Get(record, "Instructor ID", "")
        enrich == own_name = "" \/ own_name = "TBD"
        listed == section_num \in DOMAIN section_to_instructor
    IN  [number |-> Get(record, "Section", ""),
         time |-> Get(record, "Time", ""),
         location |-> Get(record, "Location", "TBD"),
         instructor |-> IF ~enrich THEN own_name
                        ELSE IF listed THEN section_to_instructor[section_num].name
                        ELSE "TBD",
         instructor_id |-> IF enrich /\ listed THEN section_to_instructor[section_num].id
                           ELSE own_id]

period_group_name(period) ==
    IF period # "Late Morning" THEN period \o " Classes" ELSE "Late Morning Class"

period_icon(period) ==
    IF period \in {"Morning", "Late Morning", "Afternoon", "Evening"}
    THEN "icon of " \o period
    ELSE "icon of books"

\* sections_by_period with the newest section of a group put first
sections_by_period_newest_first(records, section_to_instructor) ==
    LET step(groups, record) ==
            LET period == get_time_period(Get(record, "Time", ""))
                section == lecture_section_of(record, section_to_instructor)
                at == {i \in 1..Len(groups) : groups[i].period = period}
            IN  IF Get(record, "Section", "") = "" THEN groups
                ELSE IF at = {}
                THEN Append(groups, [period |-> period,
                                     name |-> period_group_name(period),
                                     icon |-> period_icon(period),
                                     time_range |-> "",
                                     sections |-> <<section>>])
                ELSE [i \in 1..Len(groups) |->
                        IF i \in at
                        THEN [groups[i] EXCEPT !.sections = <<section>> \o @]
                        ELSE groups[i]]
    IN  FoldLeft(step, <<>>, records)

\* sections_by_period: the groups in order of first appearance
sections_by_period_of(records, section_to_instructor) ==
    LET step(groups, record) ==
            LET period == get_time_period(Get(record, "Time", ""))
                section == lecture_section_of(record, section_to_instructor)
                at == {i \in 1..Len(groups) : groups[i].period = period}
            IN  IF Get(record, "Section", "") = "" THEN groups
                ELSE IF at = {}
                THEN Append(groups, [period |-> period,
                                     name |-> period_group_name(period),
                                     icon |-> period_icon(period),
                                     time_range |-> "",
                                     sections |-> <<section>>])
                ELSE [i \in 1..Len(groups) |->
                        IF i \in at
                        THEN [groups[i] EXCEPT !.sections = Append(@, section)]
                        ELSE groups[i]]
    IN  FoldLeft(step, <<>>, records)

\* the group with its time range, as returned (the dict key is not part of it)
with_time_range(group) ==
    LET times == Comprehend(LAMBDA sec : sec.time, LAMBDA sec : sec.time # "", group.sections)
    IN  [name |-> group.name,
         icon |-> group.icon,
         time_range |-> IF times # <<>> THEN calculate_time_range(times) ELSE "",
         sections |-> group.sections]

period_order == <<"Morning", "Late Morning", "Afternoon", "Evening">>

\* a sort key that looks the group name up as it is, " Classes" included
period_sort_key_by_group_name(group) ==
    LET at == {i \in 1..Len(period_order) : period_order[i] = group.name}
    IN  IF at = {} THEN 99 ELSE (CHOOSE i \in at : TRUE) - 1

\* the sort key of a group: the place of its period in period_order, else 99
period_sort_key(group) ==
    LET bare == Replace(Replace(group.name, " Classes", ""), " Class", "")
        at == {i \in 1..Len(period_order) : period_order[i] = bare}
    IN  IF at = {} THEN 99 ELSE (CHOOSE i \in at : TRUE) - 1

\* sorted(groups, key=...): stable
RECURSIVE sorted_by_key(_, _)
sorted_by_key(key(_), s) ==
    IF s = <<>> THEN <<>>
    ELSE LET rest == sorted_by_key(key, SubSeq(s, 1, Len(s) - 1))
             e == s[Len(s)]
             before == {i \in 1..Len(rest) : key(rest[i]) <= key(e)}
             n == Cardinality(before)
         IN  SubSeq(rest, 1, n) \o <<e>> \o SubSeq(rest, n + 1, Len(rest))

fetch_lecture_sections(fetcher, spreadsheets, sheet_id) ==
    LET instructors == get_all_records(fetcher, spreadsheets, sheet_id, "Instructors")
        section_to_instructor ==
            IF instructors.exc THEN EmptyDict ELSE section_to_instructor_of(instructors.val)
        records == get_all_records(fetcher, spreadsheets, sheet_id, "Lecture Sections")
    IN  IF records.exc
        THEN Ok(<<>>)
        ELSE LET groups == sections_by_period_of(records.val, section_to_instructor)
                 ranged == [i \in 1..Len(groups) |-> with_time_range(groups[i])]
             IN  Ok(sorted_by_key(period_sort_key, ranged))

(***************************************************************************)
(* _fetch_course_info                                                      *)
(***************************************************************************)

\* info: the Setting -> Value mapping of the Course Info rows, later rows winning
course_info_of(records) ==
    LET step(info, record) ==
            IF HasKey(record, "Setting") /\ HasKey(record, "Value")
            THEN DictPut(info, Get(record, "Setting", ""), Get(record, "Value", ""))
            ELSE IF Len(record) >= 2
            THEN DictPut(info, record[1][2], record[2][2])
            ELSE info
    IN  FoldLeft(step, EmptyDict, records)

\* the Prerequisites value as a list: newline first, then pipe, then the value
prerequisites_of(prereqs_raw) ==
    IF prereqs_raw = "" THEN <<>>
    ELSE IF Contains(prereqs_raw, "\n") THEN StripNonEmpty(Split(prereqs_raw, "\n"))
    ELSE IF Contains(prereqs_raw, "|") THEN StripNonEmpty(Split(prereqs_raw, "|"))
    ELSE <<Strip(prereqs_raw)>>

\* the course record returned when the Course Info tab cannot be read
course_info_fallback(course_code, term) ==
    [code |-> course_code, term |-> term, title |-> "",
     includes_math197 |-> FALSE, prerequisites |-> <<>>]

fetch_course_info(fetcher, spreadsheets, sheet_id, course_code, term) ==
    LET records == get_all_records(fetcher, spreadsheets, sheet_id, "Course Info")
        info == course_info_of(records.val)
        course_name == DictGet(info, "Course Name", "")
    IN  IF records.exc
        THEN Ok(course_info_fallback(course_code, term))
        ELSE Ok([code |-> IF course_name # "" THEN Upper(course_name) ELSE course_code,
                 title |-> DictGet(info, "Course Title", ""),
                 term |-> DictGet(info, "Term", term),
                 includes_math197 |->
                    Lower(DictGet(info, "Includes Math 197", "")) \in {"true", "yes", "1"},
                 course_hub_url |-> DictGet(info, "Course Hub URL", ""),
                 prerequisites |-> prerequisites_of(DictGet(info, "Prerequisites", ""))])

(***************************************************************************)
(* _fetch_tuesday_sections, _fetch_policies                                *)
(***************************************************************************)

EndsWith(s, suffix) ==
    Len(suffix) <= Len(s) /\ SubSeq(s, Len(s) - Len(suffix) + 1, Len(s)) = suffix

fetch_tuesday_sections(fetcher, spreadsheets, sheet_id) ==
    LET records == get_all_records(fetcher, spreadsheets, sheet_id, "Session Configuration")
    IN  IF records.exc
        THEN Ok(<<>>)
        ELSE Ok(Comprehend(
                  LAMBDA r : [identifier |-> Get(r, "Identifier", ""),
                              time |-> Get(r, "Time", ""),
                              location |-> Get(r, "Location", "TBD")],
                  LAMBDA r : \/ Contains(Get(r, "Session Type", ""), "Recitation")
                             \/ EndsWith(Get(r, "Identifier", ""), "R"),
                  records.val))

fetch_policies(fetcher, spreadsheets, sheet_id) ==
    LET records == get_all_records(fetcher, spreadsheets, sheet_id, "Session Configuration")
    IN  Ok([thursday_quiz_hours |->
              IF records.exc THEN <<>>
              ELSE Comprehend(
                     LAMBDA r : [time |-> Get(r, "Time", ""),
                                 location |-> Get(r, "Location", "")],
                     LAMBDA r : Contains(Get(r, "Session Type", ""), "Quiz Hour"),
                     records.val)])

(***************************************************************************)
(* _fetch_exams                                                            *)
(***************************************************************************)

\* _format_display_date: both of its branches return the date unchanged
format_display_date(date_str) == date_str

exams_default ==
    [midterms |-> <<>>,
     final |-> [date |-> "To be announced (Check the Penn State Final Exam Schedule)"],
     midterm1 |-> [display |-> "TBD"],
     midterm2 |-> [display |-> "TBD"],
     makeup_quiz_sessions |-> <<>>]

midterm_entry(name, record) ==
    [name |-> name,
     date |-> Get(record, "Date", ""),
     time |-> Get(record, "Time", ""),
     location |-> Get(record, "Location", ""),
     makeup_date |-> Get(record, "Makeup Date", ""),
     makeup_time |-> Get(record, "Makeup Time", ""),
     makeup_location |-> Get(record, "Makeup Location", "")]

\* the result after one Exams row when Final is tested before the other slots
exams_step_testing_final_first(result, record) ==
    IF Contains(Get(record, "Event", ""), "Final")
    THEN [result EXCEPT !.final = [date |-> Get(record, "Date", ""),
                                   time |-> Get(record, "Time", ""),
                                   location |-> Get(record, "Location", "")]]
    ELSE IF \/ Contains(Get(record, "Event", ""), "Midterm 1")
            \/ Contains(Get(record, "Event", ""), "Midterm One")
    THEN [result EXCEPT !.midterms = Append(@, midterm_entry("Midterm One", record)),
                        !.midterm1 = [display |-> format_display_date(Get(record, "Date", ""))]]
    ELSE IF \/ Contains(Get(record, "Event", ""), "Midterm 2")
            \/ Contains(Get(record, "Event", ""), "Midterm Two")
    THEN [result EXCEPT !.midterms = Append(@, midterm_entry("Midterm Two", record)),
                        !.midterm2 = [display |-> format_display_date(Get(record, "Date", ""))]]
    ELSE IF \/ Contains(Get(record, "Event", ""), "Make-up Quiz Session")
            \/ Contains(Get(record, "Event", ""), "Makeup Quiz Session")
    THEN [result EXCEPT !.makeup_quiz_sessions =
            Append(@, [name |-> Get(record, "Event", ""),
                       date |-> Get(record, "Date", ""),
                       time |-> Get(record, "Time", ""),
                       location |-> Get(record, "Location", ""),
                       notes |-> Get(record, "Notes", "")])]
    ELSE result

\* the result after one Exams row
exams_step(result, record) ==
    LET event == Get(record, "Event", "")
        date_str == Get(record, "Date", "")
    IN  IF Contains(event, "Midterm 1") \/ Contains(event, "Midterm One")
        THEN [result EXCEPT !.midterms = Append(@, midterm_entry("Midterm One", record)),
                            !.midterm1 = [display |-> format_display_date(date_str)]]
        ELSE IF Contains(event, "Midterm 2") \/ Contains(event, "Midterm Two")
        THEN [result EXCEPT !.midterms = Append(@, midterm_entry("Midterm Two", record)),
                            !.midterm2 = [display |-> format_display_date(date_str)]]
        ELSE IF \/ Contains(event, "Make-up Quiz Session")
                \/ Contains(event, "Makeup Quiz Session")
        THEN [result EXCEPT !.makeup_quiz_sessions =
                Append(@, [name |-> event,
                           date |-> date_str,
                           time |-> Get(record, "Time", ""),
                           location |-> Get(record, "Location", ""),
                           notes |-> Get(record, "Notes", "")])]
        ELSE IF Contains(event, "Final")
        THEN [result EXCEPT !.final = [date |-> date_str,
                                       time |-> Get(record, "Time", ""),
                                       location |-> Get(record, "Location", "")]]
        ELSE result

fetch_exams(fetcher, spreadsheets, sheet_id) ==
    LET records == get_all_records(fetcher, spreadsheets, sheet_id, "Exams")
    IN  IF records.exc
        THEN Ok(exams_default)
        ELSE Ok(FoldLeft(exams_step, exams_default, records.val))

(***************************************************************************)
(* _fetch_important_dates                                                  *)
(***************************************************************************)

day_prefixes ==
    <<"Monday, ", "Tuesday, ", "Wednesday, ", "Thursday, ", "Friday, ",
      "Saturday, ", "Sunday, ">>

\* _format_short_date: the date without its day of the week
format_short_date(date_str) ==
    Strip(FoldLeft(LAMBDA d, day : Replace(d, day, ""), date_str, day_prefixes))

\* the named dates after one Important Dates row
important_dates_step(dates, record) ==
    LET event == Lower(Get(record, "Event", ""))
        date_str == Get(record, "Date", "")
    IN  IF Contains(event, "regular drop") \/ Contains(event, "drop deadline")
        THEN [dates EXCEPT !.regular_drop = format_short_date(date_str)]
        ELSE IF Contains(event, "late drop")
        THEN [dates EXCEPT !.late_drop = format_short_date(date_str)]
        ELSE IF Contains(event, "finals")
        THEN [dates EXCEPT !.finals_week = date_str]
        ELSE dates

fetch_important_dates(fetcher, spreadsheets, sheet_id) ==
    LET records == get_all_records(fetcher, spreadsheets, sheet_id, "Important Dates")
        all_dates == Comprehend(
                       LAMBDA r : [event |-> Strip(Get(r, "Event", "")),
                                   date |-> Strip(Get(r, "Date", ""))],
                       LAMBDA r : Strip(Get(r, "Event", "")) # "" /\ Strip(Get(r, "Date", "")) # "",
                       records.val)
    IN  IF records.exc
        THEN Ok([all |-> <<>>, regular_drop |-> "TBD", late_drop |-> "TBD",
                 finals_week |-> "TBD"])
        ELSE Ok(FoldLeft(important_dates_step,
                         [all |-> all_dates, regular_drop |-> "", late_drop |-> "",
                          finals_week |-> ""],
                         records.val))

(***************************************************************************)
(* _fetch_grading                                                          *)
(* A threshold count is an int or None: [int |-> n] or None.               *)
(***************************************************************************)
None == [none |-> TRUE]
PyInt(n) == [int |-> n]

\* int(a or b) if (a or b) else None: the value, or a ValueError
threshold_count(a, b) ==
    LET chosen == IF a # "" THEN a ELSE b
    IN  IF chosen = "" THEN Ok(None)
        ELSE IF ParseInt(chosen).ok THEN Ok(PyInt(ParseInt(chosen).val))
        ELSE Raised

\* the two threshold mappings after one Grade Thresholds row; exc once a row raised
thresholds_step(acc, record) ==
    LET grade == Get(record, "Grade", "")
        is_197 == Contains(Get(record, "Course", ""), "197")
        complete == threshold_count(Get(record, "Number Complete", ""),
                                    Get(record, "Min Complete", ""))
        proficient == threshold_count(Get(record, "Number Proficient", ""),
                                      Get(record, "Min Proficient", ""))
        threshold == [complete |-> complete.val, proficient |-> proficient.val]
    IN  IF acc.exc \/ grade = "" THEN acc
        ELSE IF complete.exc \/ proficient.exc THEN [acc EXCEPT !.exc = TRUE]
        ELSE IF is_197
        THEN [acc EXCEPT !.math197_thresholds = DictPut(@, grade, threshold)]
        ELSE [acc EXCEPT !.thresholds = DictPut(@, grade, threshold)]

grade_thresholds_of(records) ==
    FoldLeft(thresholds_step,
             [exc |-> FALSE, thresholds |-> EmptyDict, math197_thresholds |-> EmptyDict],
             records)

xp_activities_of(xp_records) ==
    Comprehend(LAMBDA r : [name |-> Get(r, "Activity", ""),
                           value |-> Get(r, "XP Value", ""),
                           details |-> Get(r, "Details", "")],
               LAMBDA r : Get(r, "Activity", "") # "",
               xp_records)

default_xp_per_mod == 250
default_max_mods == 3

\* the two XP settings after one XP Modifications row; exc once a value raised
xp_settings_step(acc, record) ==
    LET setting == Lower(Get(record, "Setting", ""))
        value == ParseInt(Get(record, "Value", ""))
    IN  IF acc.exc THEN acc
        ELSE IF Contains(setting, "per modification")
        THEN IF value.ok THEN [acc EXCEPT !.xp_per_mod = value.val]
             ELSE [acc EXCEPT !.exc = TRUE]
        ELSE IF Contains(setting, "maximum")
        THEN IF value.ok THEN [acc EXCEPT !.max_mods = value.val]
             ELSE [acc EXCEPT !.exc = TRUE]
        ELSE acc

xp_settings_of(mod_records) ==
    FoldLeft(xp_settings_step,
             [exc |-> FALSE, xp_per_mod |-> default_xp_per_mod, max_mods |-> default_max_mods],
             mod_records)

\* the label of band i when the last band is tested before band 0
xp_label_testing_last_first(i, xp_per_mod, max_mods) ==
    IF i = max_mods THEN ToString(max_mods * xp_per_mod) \o " or more XP"
    ELSE IF i = 0 THEN "Less than " \o ToString(xp_per_mod) \o " XP"
    ELSE ToString(i * xp_per_mod) \o "-" \o ToString((i + 1) * xp_per_mod - 1) \o " XP"

\* the label of band i
xp_label(i, xp_per_mod, max_mods) ==
    IF i = 0 THEN "Less than " \o ToString(xp_per_mod) \o " XP"
    ELSE IF i = max_mods THEN ToString(max_mods * xp_per_mod) \o " or more XP"
    ELSE ToString(i * xp_per_mod) \o "-" \o ToString((i + 1) * xp_per_mod - 1) \o " XP"

\* the generated modifications table: bands 0..max_mods
xp_modifications_of(xp_per_mod, max_mods) ==
    [k \in 1..(max_mods + 1) |->
        [threshold |-> (k - 1) * xp_per_mod,
         mods |-> k - 1,
         label |-> xp_label(k - 1, xp_per_mod, max_mods),
         max_mods |-> max_mods]]

\* no band at all in place of the fallback table
xp_modifications_none == <<>>

xp_modifications_fallback ==
    <<[threshold |-> 0, mods |-> 0, label |-> "Less than 250 XP", max_mods |-> 3],
      [threshold |-> 250, mods |-> 1, label |-> "250-499 XP", max_mods |-> 3],
      [threshold |-> 500, mods |-> 2, label |-> "500-749 XP", max_mods |-> 3],
      [threshold |-> 750, mods |-> 3, label |-> "750 or more XP", max_mods |-> 3]>>

fetch_grading(fetcher, spreadsheets, sheet_id) ==
    LET records == get_all_records(fetcher, spreadsheets, sheet_id, "Grade Thresholds")
        graded == IF records.exc THEN grade_thresholds_of(<<>>)
                  ELSE grade_thresholds_of(records.val)
        xp_records == get_all_records(fetcher, spreadsheets, sheet_id, "XP Activities")
        mod_records == get_all_records(fetcher, spreadsheets, sheet_id, "XP Modifications")
        settings == xp_settings_of(mod_records.val)
    IN  Ok([thresholds |-> graded.thresholds,
            math197_thresholds |-> graded.math197_thresholds,
            xp |-> [modifications |->
                      IF mod_records.exc \/ settings.exc
                      THEN xp_modifications_fallback
                      ELSE xp_modifications_of(settings.xp_per_mod, settings.max_mods),
                    activities |->
                      IF xp_records.exc THEN <<>> ELSE xp_activities_of(xp_records.val)]])

(***************************************************************************)
(* _parse_objectives_list, _fetch_learning_targets                         *)
(* The source's non-ASCII characters are written with ASCII stand-ins:     *)
(* "{", "}", "~" for the three characters of its bullet delimiter.         *)
(***************************************************************************)
BulletDelimiter == "{}~"
LeadingMarkers == "-" \o BulletDelimiter \o "*"

\* one item cleaned: stripped, one leading marker removed, stripped again
cleaned_item(item) ==
    LET t == Strip(item)
    IN  IF t # "" /\ Contains(LeadingMarkers, Head(t)) THEN Strip(Tail(t)) ELSE t

parse_objectives_list(objectives_str) ==
    IF objectives_str = "" THEN <<>>
    ELSE LET items ==
                 IF Contains(objectives_str, "\n") THEN Split(objectives_str, "\n")
                 ELSE IF Contains(objectives_str, ";") THEN Split(objectives_str, ";")
                 ELSE IF Contains(objectives_str, BulletDelimiter)
                 THEN Split(objectives_str, BulletDelimiter)
                 ELSE IF Contains(objectives_str, "- ") THEN Split(objectives_str, "- ")
                 ELSE <<objectives_str>>
         IN  Comprehend(cleaned_item, LAMBDA item : cleaned_item(item) # "", items)

\* "".join(filter(str.isdigit, lt_id))
RECURSIVE digits_of(_)
digits_of(s) ==
    IF s = "" THEN ""
    ELSE (IF IsDigit(Head(s)) THEN Head(s) ELSE "") \o digits_of(Tail(s))

\* c or b or a on strings: the last non-empty one
LastNonEmpty(a, b, c) == IF c # "" THEN c ELSE IF b # "" THEN b ELSE a

\* a or b or c on strings
FirstNonEmpty(a, b, c) == IF a # "" THEN a ELSE IF b # "" THEN b ELSE c

\* d with key -> value when present is true
PutIf(d, present, key, value) == IF present THEN DictPut(d, key, value) ELSE d

\* the id of a Learning Targets row
lt_id_of(record) == FirstNonEmpty(Get(record, "LT ID", ""), Get(record, "LT_ID", ""), "")

is_essential(record) == Lower(Get(record, "Essential", "")) \in {"true", "yes", "1", "x"}

\* the target entry of one Learning Targets row
learning_target_of(record) ==
    LET f_desc == FirstNonEmpty(Get(record, "F_Description", ""),
                                Get(record, "F Description", ""),
                                Get(record, "Foundational Description", ""))
        f_obj_str == FirstNonEmpty(Get(record, "F_Objectives", ""),
                                   Get(record, "F Objectives", ""),
                                   Get(record, "Foundational Objectives", ""))
        adv_desc == FirstNonEmpty(Get(record, "Adv_Description", ""),
                                  Get(record, "Adv Description", ""),
                                  Get(record, "Advanced Description", ""))
        adv_obj_str == FirstNonEmpty(Get(record, "Adv_Objectives", ""),
                                     Get(record, "Adv Objectives", ""),
                                     Get(record, "Advanced Objectives", ""))
        notes == Get(record, "Notes", "")
        base == [id |-> lt_id_of(record),
                 type |-> Get(record, "Type", "Two-Part"),
                 title |-> Get(record, "Title", ""),
                 description |-> Get(record, "Description", "")]
    IN  PutIf(PutIf(PutIf(PutIf(PutIf(base,
            f_desc # "", "f_description", f_desc),
            adv_desc # "", "adv_description", adv_desc),
            notes # "", "notes", notes),
            f_obj_str # "", "f_objectives", parse_objectives_list(f_obj_str)),
            adv_obj_str # "", "adv_objectives", parse_objectives_list(adv_obj_str))

\* the essential list after one row
essential_step(essential, record) ==
    IF lt_id_of(record) # "" /\ is_essential(record) /\ digits_of(lt_id_of(record)) # ""
    THEN Append(essential, ParseInt(digits_of(lt_id_of(record))).val)
    ELSE essential

\* detailed_list_url, from the Course Info rows
detailed_list_url_of(records) ==
    LET info == FoldLeft(LAMBDA d, r : DictPut(d, Get(r, "Setting", ""), Get(r, "Value", "")),
                         EmptyDict, records)
    IN  FirstNonEmpty(DictGet(info, "Learning Targets URL", ""),
                      DictGet(info, "Detailed List URL", ""), "")

default_total == 25

fetch_learning_targets(fetcher, spreadsheets, sheet_id) ==
    LET records == get_all_records(fetcher, spreadsheets, sheet_id, "Learning Targets")
        info == get_all_records(fetcher, spreadsheets, sheet_id, "Course Info")
    IN  Ok([total |-> IF records.exc THEN default_total ELSE Len(records.val),
            detailed_list_url |-> IF info.exc THEN "" ELSE detailed_list_url_of(info.val),
            essential |-> IF records.exc THEN <<>>
                          ELSE FoldLeft(essential_step, <<>>, records.val),
            targets |-> IF records.exc THEN <<>>
                        ELSE Comprehend(learning_target_of,
                                        LAMBDA r : lt_id_of(r) # "", records.val)])

(***************************************************************************)
(* _fetch_quiz_schedule                                                    *)
(***************************************************************************)

\* [lt.strip() for lt in str(value).split(",") if lt.strip()], [] for no value
comma_list(value) == IF value = "" THEN <<>> ELSE StripNonEmpty(Split(value, ","))

new_week_entry(week_num) ==
    [week |-> week_num,
     tuesday_date |-> "", tuesday_lts |-> <<>>, tuesday_new_lts |-> <<>>,
     tuesday_notes |-> "",
     thursday_date |-> "", thursday_lts |-> <<>>, thursday_new_lts |-> <<>>,
     thursday_notes |-> "",
     exam_sessions |-> <<>>]

\* the exam type of a Session value, "" for none
exam_type_of(session_lower) ==
    IF session_lower = "midterm" THEN "midterm"
    ELSE IF session_lower = "make-up midterm" THEN "makeup_midterm"
    ELSE IF session_lower = "make-up" \/ session_lower = "makeup" THEN "makeup"
    ELSE IF session_lower = "final" THEN "final"
    ELSE ""

\* the week's entry after one row when an exam row is appended whatever the
\* dates already there
week_entry_step_keeping_duplicates(week_entry, record) ==
    LET session == Strip(Get(record, "Session", ""))
        session_lower == Lower(session)
        date_str == Get(record, "Date", "")
        lts == comma_list(FirstNonEmpty(Get(record, "Learning Targets", ""),
                                        Get(record, "LTs", ""), ""))
        new_lts == comma_list(FirstNonEmpty(Get(record, "New Lts", ""),
                                            Get(record, "New LTs", ""),
                                            Get(record, "New", "")))
        notes == Get(record, "Notes", "")
        dayed ==
            IF Contains(session_lower, "tuesday")
            THEN [week_entry EXCEPT !.tuesday_date = date_str, !.tuesday_lts = lts,
                                    !.tuesday_new_lts = new_lts, !.tuesday_notes = notes]
            ELSE IF Contains(session_lower, "thursday")
            THEN [week_entry EXCEPT !.thursday_date = date_str, !.thursday_lts = lts,
                                    !.thursday_new_lts = new_lts, !.thursday_notes = notes]
            ELSE week_entry
    IN  IF exam_type_of(session_lower) # ""
        THEN [dayed EXCEPT !.exam_sessions =
                Append(@, [date |-> date_str,
                           exam_type |-> exam_type_of(session_lower),
                           session_type |-> session,
                           learning_targets |-> lts,
                           notes |-> notes])]
        ELSE dayed

\* the week's entry after one Quiz Schedule row of that week
week_entry_step(week_entry, record) ==
    LET session == Strip(Get(record, "Session", ""))
        session_lower == Lower(session)
        date_str == Get(record, "Date", "")
        lts == comma_list(FirstNonEmpty(Get(record, "Learning Targets", ""),
                                        Get(record, "LTs", ""), ""))
        new_lts == comma_list(FirstNonEmpty(Get(record, "New Lts", ""),
                                            Get(record, "New LTs", ""),
                                            Get(record, "New", "")))
        notes == Get(record, "Notes", "")
        exam_type == exam_type_of(session_lower)
        dayed ==
            IF Contains(session_lower, "tuesday")
            THEN [week_entry EXCEPT !.tuesday_date = date_str, !.tuesday_lts = lts,
                                    !.tuesday_new_lts = new_lts, !.tuesday_notes = notes]
            ELSE IF Contains(session_lower, "thursday")
            THEN [week_entry EXCEPT !.thursday_date = date_str, !.thursday_lts = lts,
                                    !.thursday_new_lts = new_lts, !.thursday_notes = notes]
            ELSE week_entry
        existing_dates == {dayed.exam_sessions[i].date : i \in 1..Len(dayed.exam_sessions)}
    IN  IF exam_type # "" /\ date_str \notin existing_dates
        THEN [dayed EXCEPT !.exam_sessions =
                Append(@, [date |-> date_str,
                           exam_type |-> exam_type,
                           session_type |-> session,
                           learning_targets |-> lts,
                           notes |-> notes])]
        ELSE dayed

\* weeks_data: week number -> entry, after one row
weeks_data_step(weeks_data, record) ==
    LET week_str == Get(record, "Week", "")
        week_num == ParseInt(week_str)
    IN  IF week_str = "" \/ ~week_num.ok THEN weeks_data
        ELSE DictPut(weeks_data, week_num.val,
                     week_entry_step(DictGet(weeks_data, week_num.val,
                                             new_week_entry(week_num.val)),
                                     record))

\* sorted(keys): the elements of a finite set of integers in ascending order
RECURSIVE SortedInts(_)
SortedInts(S) ==
    IF S = {} THEN <<>>
    ELSE LET least == CHOOSE n \in S : \A m \in S : n <= m
         IN  <<least>> \o SortedInts(S \ {least})

\* the week entries in descending week order
schedule_of_descending(weeks_data) ==
    [i \in 1..Len(SortedInts(DOMAIN weeks_data)) |->
        weeks_data[SortedInts(DOMAIN weeks_data)[Len(SortedInts(DOMAIN weeks_data)) - i + 1]]]

\* the schedule: the week entries in ascending week order
schedule_of(weeks_data) ==
    LET weeks == SortedInts(DOMAIN weeks_data)
    IN  [i \in 1..Len(weeks) |-> weeks_data[weeks[i]]]

\* a quiz schedule fetched with no handler around the read of its tab
fetch_quiz_schedule_unguarded(fetcher, spreadsheets, sheet_id) ==
    LET records == get_all_records(fetcher, spreadsheets, sheet_id, "Quiz Schedule")
    IN  IF records.exc
        THEN Raised
        ELSE Ok(schedule_of(FoldLeft(weeks_data_step, EmptyDict, records.val)))

fetch_quiz_schedule(fetcher, spreadsheets, sheet_id) ==
    LET records == get_all_records(fetcher, spreadsheets, sheet_id, "Quiz Schedule")
    IN  IF records.exc
        THEN Ok(<<>>)
        ELSE Ok(schedule_of(FoldLeft(weeks_data_step, EmptyDict, records.val)))

(***************************************************************************)
(* _fetch_la_sessions, _get_office_hours_embed_url                         *)
(***************************************************************************)
la_location_settings == {"la session location", "la sessions location", "la location"}

\* the Value of the first Course Info row whose Setting names the LA location
la_location_of(records) ==
    LET hits == {i \in 1..Len(records) :
                    /\ HasKey(records[i], "Setting")
                    /\ Lower(Strip(Get(records[i], "Setting", ""))) \in la_location_settings}
    IN  IF hits = {} THEN ""
        ELSE Strip(Get(records[CHOOSE i \in hits : \A j \in hits : i <= j], "Value", ""))

\* time or times of an LA Sessions row
la_time_of(record) ==
    IF Strip(Get(record, "Time", "")) # "" THEN Strip(Get(record, "Time", ""))
    ELSE Strip(Get(record, "Times", ""))

la_schedule_of(records) ==
    Comprehend(LAMBDA r : [days |-> Strip(Get(r, "Days", "")), time |-> la_time_of(r)],
               LAMBDA r : Strip(Get(r, "Days", "")) # "" /\ la_time_of(r) # "",
               records)

\* what _fetch_la_sessions returns when there is no schedule
la_sessions_empty == EmptyDict

fetch_la_sessions(fetcher, spreadsheets, sheet_id) ==
    LET info == get_all_records(fetcher, spreadsheets, sheet_id, "Course Info")
        records == get_all_records(fetcher, spreadsheets, sheet_id, "LA Sessions")
    IN  IF records.exc THEN Ok(la_sessions_empty)
        ELSE IF la_schedule_of(records.val) = <<>> THEN Ok(la_sessions_empty)
        ELSE Ok([location |-> IF info.exc THEN "" ELSE la_location_of(info.val),
                 schedule |-> la_schedule_of(records.val)])

get_office_hours_embed_url(fetcher, spreadsheets, sheet_id) ==
    LET info == get_all_records(fetcher, spreadsheets, sheet_id, "Course Info")
        hits == {i \in 1..Len(info.val) :
                    /\ HasKey(info.val[i], "Setting")
                    /\ Get(info.val[i], "Setting", "") = "Office Hours Embed URL"}
    IN  IF info.exc \/ hits = {} THEN ""
        ELSE Get(info.val[CHOOSE i \in hits : \A j \in hits : i <= j], "Value", "")

(***************************************************************************)
(* fetch_course_config                                                     *)
(***************************************************************************)

\* an office_hours_embed_url entry added only when there is a URL
with_office_hours_embed_url_if_any(config, office_hours_url) ==
    IF office_hours_url # ""
    THEN DictPut(config, "office_hours_embed_url", office_hours_url)
    ELSE config

\* the office_hours_embed_url entry: the URL, "" when there is none
with_office_hours_embed_url(config, office_hours_url) ==
    IF office_hours_url # ""
    THEN DictPut(config, "office_hours_embed_url", office_hours_url)
    ELSE DictPut(config, "office_hours_embed_url", "")

\* the outcome once every tab is fetched: it raised, or it returned config
course_config_of(fetcher, parts, office_hours_embed_url) ==
    IF \E key \in DOMAIN parts : parts[key].exc
    THEN [exc |-> TRUE, prefetched |-> TRUE, fetcher |-> fetcher]
    ELSE [exc |-> FALSE, prefetched |-> TRUE, fetcher |-> fetcher,
          val |-> with_office_hours_embed_url([key \in DOMAIN parts |-> parts[key].val],
                                              office_hours_embed_url)]

\* the outcome after the prefetch
course_config_after(pre, spreadsheets, config_sheet_id, course_code, term) ==
    IF pre.exc
    THEN [exc |-> TRUE, prefetched |-> FALSE, fetcher |-> pre.fetcher]
    ELSE course_config_of(
             pre.fetcher,
             [course |-> fetch_course_info(pre.fetcher, spreadsheets, config_sheet_id,
                                           course_code, term),
              instructors |-> fetch_instructors(pre.fetcher, spreadsheets, config_sheet_id),
              mwf_sections |-> fetch_lecture_sections(pre.fetcher, spreadsheets, config_sheet_id),
              tuesday_sections |->
                  fetch_tuesday_sections(pre.fetcher, spreadsheets, config_sheet_id),
              exams |-> fetch_exams(pre.fetcher, spreadsheets, config_sheet_id),
              important_dates |->
                  fetch_important_dates(pre.fetcher, spreadsheets, config_sheet_id),
              policies |-> fetch_policies(pre.fetcher, spreadsheets, config_sheet_id),
              grading |-> fetch_grading(pre.fetcher, spreadsheets, config_sheet_id),
              learning_targets |->
                  fetch_learning_targets(pre.fetcher, spreadsheets, config_sheet_id),
              quiz_schedule |-> fetch_quiz_schedule(pre.fetcher, spreadsheets, config_sheet_id),
              la_sessions |-> fetch_la_sessions(pre.fetcher, spreadsheets, config_sheet_id)],
             get_office_hours_embed_url(pre.fetcher, spreadsheets, config_sheet_id))

\* The outcome of fetch_course_config: it raised, or it returned config.
fetch_course_config(fetcher, spreadsheets, config_sheet_id, course_code, term) ==
    course_config_after(prefetch_all_worksheets(fetcher, spreadsheets, config_sheet_id),
                        spreadsheets, config_sheet_id, course_code, term)

(***************************************************************************)
(* build.py: the JSON cache.                                               *)
(* A Python value is tagged with its type: [str |-> s], [int |-> n],       *)
(* [bool |-> b], None, [list |-> items], [dict |-> pairs], the pairs being *)
(* <<key, value>> in insertion order.  A JSON document is a tree whose     *)
(* leaves are the texts json.dump writes: [tok |-> text], [arr |-> items], *)
(* [obj |-> members], the members being <<key text, value>>.               *)
(***************************************************************************)
PyStr(s) == [str |-> s]
PyBool(b) == [bool |-> b]
PyList(items) == [list |-> items]
PyDict(pairs) == [dict |-> pairs]

RECURSIVE SetToSeq(_)
SetToSeq(S) ==
    IF S = {} THEN <<>>
    ELSE LET e == CHOOSE x \in S : TRUE IN <<e>> \o SetToSeq(S \ {e})

\* the Python list of the items of s, and the Python dict of the entries of d
py_list(s, of(_)) == PyList([i \in 1..Len(s) |-> of(s[i])])
py_dict(d, of(_, _)) ==
    LET keys == SetToSeq(DOMAIN d)
    IN  PyDict([i \in 1..Len(keys) |-> <<PyStr(keys[i]), of(keys[i], d[keys[i]])>>])

py_str_list(s) == py_list(s, PyStr)
py_str_dict(d) == py_dict(d, LAMBDA k, v : PyStr(v))
py_str_dicts(s) == py_list(s, py_str_dict)

\* the configuration fetch_course_config builds, entry by entry
py_course(course) ==
    py_dict(course, LAMBDA k, v :
        IF k = "includes_math197" THEN PyBool(v)
        ELSE IF k = "prerequisites" THEN py_str_list(v)
        ELSE PyStr(v))

py_instructor(instructor) ==
    py_dict(instructor, LAMBDA k, v :
        IF k \in {"sections", "office_hours"} THEN py_str_dicts(v) ELSE PyStr(v))

py_period_group(group) ==
    py_dict(group, LAMBDA k, v : IF k = "sections" THEN py_str_dicts(v) ELSE PyStr(v))

py_exams(exams) ==
    py_dict(exams, LAMBDA k, v :
        IF k \in {"midterms", "makeup_quiz_sessions"} THEN py_str_dicts(v)
        ELSE py_str_dict(v))

py_important_dates(dates) ==
    py_dict(dates, LAMBDA k, v : IF k = "all" THEN py_str_dicts(v) ELSE PyStr(v))

py_policies(policies) == py_dict(policies, LAMBDA k, v : py_str_dicts(v))

\* a threshold holds counts that are an int or None already
py_thresholds(thresholds) ==
    py_dict(thresholds, LAMBDA grade, t : py_dict(t, LAMBDA k, v : v))

py_xp(xp) ==
    py_dict(xp, LAMBDA k, v :
        IF k = "modifications"
        THEN py_list(v, LAMBDA band :
                py_dict(band, LAMBDA f, x : IF f = "label" THEN PyStr(x) ELSE PyInt(x)))
        ELSE py_str_dicts(v))

py_grading(grading) ==
    py_dict(grading, LAMBDA k, v : IF k = "xp" THEN py_xp(v) ELSE py_thresholds(v))

py_learning_target(target) ==
    py_dict(target, LAMBDA k, v :
        IF k \in {"f_objectives", "adv_objectives"} THEN py_str_list(v) ELSE PyStr(v))

py_learning_targets(lts) ==
    py_dict(lts, LAMBDA k, v :
        IF k = "total" THEN PyInt(v)
        ELSE IF k = "essential" THEN py_list(v, PyInt)
        ELSE IF k = "targets" THEN py_list(v, py_learning_target)
        ELSE PyStr(v))

py_exam_session(session) ==
    py_dict(session, LAMBDA k, v :
        IF k = "learning_targets" THEN py_str_list(v) ELSE PyStr(v))

py_week(week) ==
    py_dict(week, LAMBDA k, v :
        IF k = "week" THEN PyInt(v)
        ELSE IF k = "exam_sessions" THEN py_list(v, py_exam_session)
        ELSE IF k \in {"tuesday_lts", "tuesday_new_lts", "thursday_lts", "thursday_new_lts"}
        THEN py_str_list(v)
        ELSE PyStr(v))

py_la_sessions(la) ==
    py_dict(la, LAMBDA k, v : IF k = "schedule" THEN py_str_dicts(v) ELSE PyStr(v))

py_config(cfg) ==
    py_dict(cfg, LAMBDA k, v :
        CASE k = "course" -> py_course(v)
          [] k = "instructors" -> py_list(v, py_instructor)
          [] k = "mwf_sections" -> py_list(v, py_period_group)
          [] k = "tuesday_sections" -> py_str_dicts(v)
          [] k = "exams" -> py_exams(v)
          [] k = "important_dates" -> py_important_dates(v)
          [] k = "policies" -> py_policies(v)
          [] k = "grading" -> py_grading(v)
          [] k = "learning_targets" -> py_learning_targets(v)
          [] k = "quiz_schedule" -> py_list(v, py_week)
          [] k = "la_sessions" -> py_la_sessions(v)
          [] k = "office_hours_embed_url" -> PyStr(v))

\* json.dump: the text of a string, with its escapes
RECURSIVE json_escape(_)
json_escape(s) ==
    IF s = "" THEN ""
    ELSE IF Len(s) = 1
    THEN (IF s = "\"" THEN "\\\""
          ELSE IF s = "\\" THEN "\\\\"
          ELSE IF s = "\n" THEN "\\n"
          ELSE IF s = "\t" THEN "\\t"
          ELSE s)
    ELSE json_escape(SubSeq(s, 1, Len(s) \div 2))
         \o json_escape(SubSeq(s, Len(s) \div 2 + 1, Len(s)))

json_string(s) == "\"" \o json_escape(s) \o "\""

\* the text of a dict key: a str as it is, an int, a bool or None coerced to str
json_key(key) ==
    IF "str" \in DOMAIN key THEN json_string(key.str)
    ELSE IF "int" \in DOMAIN key THEN json_string(ToString(key.int))
    ELSE IF "bool" \in DOMAIN key THEN json_string(IF key.bool THEN "true" ELSE "false")
    ELSE json_string("null")

\* json.dump(config, f, indent=2): the document written for a Python value
RECURSIVE json_dump(_)
json_dump(value) ==
    IF "str" \in DOMAIN value THEN [tok |-> json_string(value.str)]
    ELSE IF "int" \in DOMAIN value THEN [tok |-> ToString(value.int)]
    ELSE IF "bool" \in DOMAIN value THEN [tok |-> IF value.bool THEN "true" ELSE "false"]
    ELSE IF "none" \in DOMAIN value THEN [tok |-> "null"]
    ELSE IF "list" \in DOMAIN value
    THEN [arr |-> [i \in 1..Len(value.list) |-> json_dump(value.list[i])]]
    ELSE [obj |-> [i \in 1..Len(value.dict) |->
                     <<json_key(value.dict[i][1]), json_dump(value.dict[i][2])>>]]

\* json.load: the string of a string text
RECURSIVE json_unescape(_)
json_unescape(s) ==
    LET at == Find(s, "\\")
        e == CharAt(s, at + 1)
    IN  IF at = 0 THEN s
        ELSE SubSeq(s, 1, at - 1)
             \o (IF e = "n" THEN "\n" ELSE IF e = "t" THEN "\t" ELSE e)
             \o json_unescape(SubSeq(s, at + 2, Len(s)))

json_unquote(text) == json_unescape(SubSeq(text, 2, Len(text) - 1))

\* json.load: the Python value read from a document; a key written twice
\* keeps its first place and its last value
RECURSIVE json_load(_)
json_load(doc) ==
    IF "tok" \in DOMAIN doc
    THEN IF Head(doc.tok) = "\"" THEN PyStr(json_unquote(doc.tok))
         ELSE IF doc.tok = "null" THEN None
         ELSE IF doc.tok = "true" THEN PyBool(TRUE)
         ELSE IF doc.tok = "false" THEN PyBool(FALSE)
         ELSE PyInt(ParseInt(doc.tok).val)
    ELSE IF "arr" \in DOMAIN doc
    THEN PyList([i \in 1..Len(doc.arr) |-> json_load(doc.arr[i])])
    ELSE LET keys == [i \in 1..Len(doc.obj) |-> json_unquote(doc.obj[i][1])]
             firsts == SelectSeq([i \in 1..Len(keys) |-> i],
                                 LAMBDA i : \A j \in 1..(i - 1) : keys[j] # keys[i])
             last(i) == CHOOSE j \in i..Len(keys) :
                            /\ keys[j] = keys[i]
                            /\ \A k \in (j + 1)..Len(keys) : keys[k] # keys[i]
         IN  PyDict([n \in 1..Len(firsts) |->
                        <<PyStr(keys[firsts[n]]), json_load(doc.obj[last(firsts[n])][2])>>])

\* the cache file of a course of a term
cache_file_of(term, course) == "data/" \o term \o "/" \o course \o ".json"

\* a Python value without the dict entries whose value is None
RECURSIVE without_none_entries(_)
without_none_entries(value) ==
    IF "list" \in DOMAIN value
    THEN PyList([i \in 1..Len(value.list) |-> without_none_entries(value.list[i])])
    ELSE IF "dict" \in DOMAIN value
    THEN PyDict(Comprehend(LAMBDA pair : <<pair[1], without_none_entries(pair[2])>>,
                           LAMBDA pair : pair[2] # None,
                           value.dict))
    ELSE value

\* a save that leaves the None entries out of the file
save_config_without_none(cache, term, course, cfg) ==
    DictPut(cache, cache_file_of(term, course), json_dump(without_none_entries(cfg)))

\* save_config_to_cache: the files afterwards
save_config_to_cache(cache, term, course, cfg) ==
    DictPut(cache, cache_file_of(term, course), json_dump(cfg))

\* load_config_from_cache: FileNotFoundError when there is no cache file
load_config_from_cache(cache, term, course) ==
    IF cache_file_of(term, course) \notin DOMAIN cache THEN Raised
    ELSE Ok(json_load(cache[cache_file_of(term, course)]))

(***************************************************************************)
(* build.py: build_course and main.                                        *)
(* A course of the list is [name, fault], the fault being what is wrong    *)
(* with it: "none"; "missing", its configuration source is not there;      *)
(* "unloadable", reading its configuration raises; "static", its           *)
(* configuration makes copy_static_files raise; "template", its            *)
(* configuration makes a page template raise.                              *)
(***************************************************************************)
Faults == {"none", "missing", "unloadable", "static", "template"}

\* build_course when the cache file is written before the Sheets load is
\* known to have succeeded
build_course_saving_first(course, from_sheets, from_cache, save_cache) ==
    LET out(exc, val, cached, pages) ==
            [exc |-> exc, val |-> val, cached |-> cached, pages |-> pages]
        load_fails == course.fault \in {"missing", "unloadable"}
        cached == ~from_cache /\ from_sheets /\ save_cache
    IN  IF from_cache /\ load_fails THEN out(FALSE, FALSE, FALSE, FALSE)
        ELSE IF ~from_cache /\ from_sheets /\ load_fails THEN out(FALSE, FALSE, cached, FALSE)
        ELSE IF ~from_cache /\ ~from_sheets /\ course.fault = "missing"
        THEN out(FALSE, FALSE, FALSE, FALSE)
        ELSE IF ~from_cache /\ ~from_sheets /\ course.fault = "unloadable"
        THEN out(TRUE, FALSE, FALSE, FALSE)
        ELSE IF course.fault = "static" THEN out(TRUE, FALSE, cached, FALSE)
        ELSE IF course.fault = "template" THEN out(TRUE, FALSE, cached, FALSE)
        ELSE out(FALSE, TRUE, cached, TRUE)

\* build_course: what it returns, or that it raised, and what it wrote
build_course(course, from_sheets, from_cache, save_cache) ==
    LET out(exc, val, cached, pages) ==
            [exc |-> exc, val |-> val, cached |-> cached, pages |-> pages]
        load_fails == course.fault \in {"missing", "unloadable"}
        cached == ~from_cache /\ from_sheets /\ save_cache /\ ~load_fails
    IN  IF from_cache /\ load_fails THEN out(FALSE, FALSE, FALSE, FALSE)
        ELSE IF ~from_cache /\ from_sheets /\ load_fails THEN out(FALSE, FALSE, FALSE, FALSE)
        ELSE IF ~from_cache /\ ~from_sheets /\ course.fault = "missing"
        THEN out(FALSE, FALSE, FALSE, FALSE)
        ELSE IF ~from_cache /\ ~from_sheets /\ course.fault = "unloadable"
        THEN out(TRUE, FALSE, FALSE, FALSE)
        ELSE IF course.fault = "static" THEN out(TRUE, FALSE, cached, FALSE)
        ELSE IF course.fault = "template" THEN out(TRUE, FALSE, cached, FALSE)
        ELSE out(FALSE, TRUE, cached, TRUE)

(***************************************************************************)
(* State.                                                                  *)
(***************************************************************************)
VARIABLES
    spreadsheets,   \* the remote spreadsheets: sheet id -> [ok, worksheets]
    fetcher,        \* the SheetsFetcher: [cache, sheet_id]
    call,           \* fetch_course_config: "idle", "prefetch_failed", "raised", "returned"
    config,         \* the configuration fetch_course_config returned
    sheet_parts,    \* the rows the spreadsheet was written from
    files,          \* the JSON cache files of the data directory: path -> document
    loaded,         \* what load_config_from_cache returned or raised, NotLoaded before
    time_parts,     \* the parts a Time cell was written from
    time_str,       \* the Time cell handed to _get_time_period
    period,         \* the period _get_time_period returned, "" before the call
    args,           \* the command line of build.py
    courses,        \* the courses the data directory or the environment lists
    docs,           \* the courses whose pages a build wrote to the output directory
    pc,             \* main: "start", "building", "complete", "returned", "crashed"
    index,          \* the place in the course list of the next course to build
    results,        \* an entry per build_course invocation, in order
    prefetch,       \* the last _prefetch_all_worksheets call and its outcome
    served          \* the last get_all_records call and what it returned

sheetVars == <<spreadsheets, fetcher, call, config, sheet_parts>>
cacheVars == <<files, loaded>>
timeVars == <<time_parts, time_str, period>>
buildVars == <<args, courses, docs, pc, index, results>>
callVars == <<prefetch, served>>
vars == <<spreadsheets, fetcher, call, config, sheet_parts, files, loaded,
          time_parts, time_str, period, args, courses, docs, pc, index, results,
          prefetch, served>>

NoConfig == EmptyDict
NotLoaded == [called |-> FALSE]
SheetId == "S1"
CourseCode == "MATH 140B"
Term == "Spring 2026"

\* no spreadsheet, a fresh fetcher, no call made
SheetsIdle ==
    /\ spreadsheets = (SheetId :> [ok |-> FALSE, worksheets |-> <<>>])
    /\ fetcher = NewFetcher
    /\ call = "idle"
    /\ config = NoConfig
    /\ sheet_parts = [kind |-> "none"]

CacheIdle ==
    /\ files = EmptyDict
    /\ loaded = NotLoaded

BuildIdle ==
    /\ args = [kind |-> "none"]
    /\ courses = <<>>
    /\ docs = {}
    /\ pc = "idle"
    /\ index = 0
    /\ results = <<>>

TimeIdle ==
    /\ time_parts = [kind |-> "none"]
    /\ time_str = ""
    /\ period = ""

\* no call of _prefetch_all_worksheets or get_all_records made on its own
CallsIdle ==
    /\ prefetch = [kind |-> "none"]
    /\ served = [kind |-> "none"]

(***************************************************************************)
(* _get_time_period on the Time cells a sheet can hold.                    *)
(***************************************************************************)
MaxHour == 23

Minutes == {"00", "45"}
Markers == {"", " AM", " PM", "am", "pm"}
\* what follows the start time: nothing, or a range separated by a hyphen
RangeTails == {"", " - 10:15", "-11:30", " - 1:10 pm"}
\* cells with no hour before a colon
JunkTimes == {"TBA", "noon", ":30", "9 AM", "2 PM", "-", " ", "9.5:00", "1O:00"}

\* the 12-hour clock carries a marker only for the hours 1..12
ClockParts ==
    {p \in [kind : {"clock"}, hour : 0..MaxHour, minute : Minutes, marker : Markers,
            tail : RangeTails, pad : {"", " "}] :
        p.marker # "" => p.hour \in 1..12}

JunkParts == [kind : {"junk"}, text : JunkTimes \cup {""}]

\* the en dash of a time range (U+2013), written as a character no cell holds
EnDash == "="

\* a range: its start time, a separator (hyphen or en dash), its end time
RangeSeparators == {"-", " - ", EnDash, " " \o EnDash \o " "}
RangeEnds == {"9:50", "11:30 AM", "12:05 PM", "1:10 pm"}

RangeParts ==
    {p \in [kind : {"range"}, hour : 0..MaxHour, minute : Minutes, marker : Markers,
            separator : RangeSeparators, end : RangeEnds] :
        p.marker # "" => p.hour \in 1..12}

\* the start time of a cell written from clock or range parts
StartOf(p) == ToString(p.hour) \o ":" \o p.minute \o p.marker

\* the cell written from its parts
TimeCell(p) ==
    IF p.kind = "clock" THEN p.pad \o StartOf(p) \o p.tail
    ELSE IF p.kind = "range" THEN StartOf(p) \o p.separator \o p.end
    ELSE p.text

InitTime ==
    /\ BuildIdle
    /\ SheetsIdle
    /\ CacheIdle
    /\ CallsIdle
    /\ time_parts \in ClockParts \cup JunkParts
    /\ time_str = TimeCell(time_parts)
    /\ period = ""

GetTimePeriod ==
    /\ period = ""
    /\ period' = get_time_period(time_str)
    /\ UNCHANGED <<time_parts, time_str, sheetVars, cacheVars, buildVars, callVars>>

NextTime == GetTimePeriod

SpecTime == InitTime /\ [][NextTime]_vars

\* the start hour on the 24-hour clock, from the parts the cell was written from
Hour24(p) ==
    IF Lower(p.marker) \in {" pm", "pm"} THEN (p.hour % 12) + 12
    ELSE IF Lower(p.marker) \in {" am", "am"} THEN p.hour % 12
    ELSE p.hour

\* C10: the period is the bucket of the 24-hour start hour (Morning below 10,
\* Late Morning 10-11, Afternoon 12-16, Evening from 17; 12 AM is hour 0 and
\* 12 PM hour 12), and Morning for an empty or unparseable cell.
C10_PeriodIsBucketOfStartHour ==
    period # "" =>
        IF time_parts.kind = "clock"
        THEN /\ (period = "Morning") <=> (Hour24(time_parts) < 10)
             /\ (period = "Late Morning") <=> (Hour24(time_parts) \in 10..11)
             /\ (period = "Afternoon") <=> (Hour24(time_parts) \in 12..16)
             /\ (period = "Evening") <=> (Hour24(time_parts) >= 17)
        ELSE period = "Morning"

\* C10 witness: 12 PM was bucketed as Afternoon
C10_Witness ==
    /\ time_parts.kind = "clock"
    /\ time_parts.hour = 12
    /\ time_parts.marker = " PM"
    /\ period = "Afternoon"

(***************************************************************************)
(* _get_time_period on ranges: a start time, a separator, an end time.     *)
(***************************************************************************)
InitRange ==
    /\ BuildIdle
    /\ SheetsIdle
    /\ CacheIdle
    /\ CallsIdle
    /\ time_parts \in RangeParts
    /\ time_str = TimeCell(time_parts)
    /\ period = ""

NextRange == GetTimePeriod

SpecRange == InitRange /\ [][NextRange]_vars

\* C11: the period of a range is the period of its start time alone, whatever
\* its end time and whichever separator, hyphen or en dash, it is written with.
C11_PeriodIgnoresRangeEnd ==
    period # "" => period = get_time_period(StartOf(time_parts))

(***************************************************************************)
(* fetch_course_config as the one operation of a SheetsFetcher.            *)
(***************************************************************************)
FetchCourseConfig ==
    /\ call = "idle"
    /\ \E r \in {fetch_course_config(fetcher, spreadsheets, SheetId, CourseCode, Term)} :
           /\ fetcher' = r.fetcher
           /\ call' = IF ~r.exc THEN "returned"
                      ELSE IF r.prefetched THEN "raised"
                      ELSE "prefetch_failed"
           /\ config' = IF r.exc THEN NoConfig ELSE r.val
    /\ UNCHANGED <<spreadsheets, sheet_parts, cacheVars, timeVars, buildVars, callVars>>

(***************************************************************************)
(* The instructor <-> section join: spreadsheets holding the tabs          *)
(* Lecture Sections, Instructors and Office Hours.                         *)
(***************************************************************************)
MaxLectureRows == 2
MaxInstructorRows == 2

\* rows of the Lecture Sections tab, one of them with a padded Section cell
LectureOptions ==
    { [section |-> "1", days |-> "MWF", time |-> "9:05 AM - 9:55 AM",
       location |-> "Osmond 101", instructor |-> "", instructor_id |-> ""],
      [section |-> " 1 ", days |-> "MWF", time |-> "1:25 PM - 2:15 PM",
       location |-> "Thomas 102", instructor |-> "TBD", instructor_id |-> ""],
      [section |-> "2", days |-> "MWF", time |-> "10:10 AM - 11:00 AM",
       location |-> "Willard 62", instructor |-> "Zed Young", instructor_id |-> "zy1"],
      [section |-> "2", days |-> "TR", time |-> "6:00 PM - 7:15 PM",
       location |-> "Boucke 304", instructor |-> "", instructor_id |-> ""],
      [section |-> "", days |-> "MWF", time |-> "12:20 PM - 1:10 PM",
       location |-> "Forum 111", instructor |-> "", instructor_id |-> ""] }

\* rows of the Instructors tab: the Sections cell is the listed identifiers
\* joined by the delimiter
InstructorOptions ==
    { [name |-> "Ann Lee", id |-> "", listed |-> <<"1">>, delimiter |-> ","],
      [name |-> "Bo", id |-> " bo7 ", listed |-> <<"1", "2">>, delimiter |-> ", "],
      [name |-> "Cy Day", id |-> "", listed |-> <<"2", "3">>, delimiter |-> ";"],
      [name |-> "", id |-> "", listed |-> <<"1">>, delimiter |-> ","],
      [name |-> "Dee", id |-> "", listed |-> <<"3", "1">>, delimiter |-> " "] }

\* the sequences of at most n elements of S
SeqsUpTo(S, n) == UNION {[1..k -> S] : k \in 0..n}

RECURSIVE JoinStrings(_, _)
JoinStrings(parts, sep) ==
    IF parts = <<>> THEN ""
    ELSE IF Len(parts) = 1 THEN parts[1]
    ELSE parts[1] \o sep \o JoinStrings(Tail(parts), sep)

LectureHeader == <<"Section", "Days", "Time", "Location", "Instructor", "Instructor ID">>
InstructorHeader == <<"Name", "ID", "Sections">>
OfficeHoursHeader == <<"Instructor", "Day", "Time", "Location">>

LectureCells(p) ==
    <<p.section, p.days, p.time, p.location, p.instructor, p.instructor_id>>
InstructorCells(p) == <<p.name, p.id, JoinStrings(p.listed, p.delimiter)>>

Worksheet(title, header, rows) ==
    [title |-> title, values |-> <<header>> \o rows, readable |-> TRUE]

\* the spreadsheet written from the parts
JoinWorksheets(parts) ==
    (IF parts.lecture_tab
     THEN <<Worksheet("Lecture Sections", LectureHeader,
                      [i \in 1..Len(parts.lecture) |-> LectureCells(parts.lecture[i])])>>
     ELSE <<>>)
    \o <<Worksheet("Instructors", InstructorHeader,
                   [i \in 1..Len(parts.instructors) |-> InstructorCells(parts.instructors[i])])>>
    \o (IF parts.office_hours_tab
        THEN <<Worksheet("Office Hours", OfficeHoursHeader,
                         << <<"Ann Lee", "Mon", "2:30 PM", "McAllister 104">>,
                            <<"Bo", "Wed", "11:15 AM", "McAllister 215">> >>)>>
        ELSE <<>>)

JoinParts ==
    {p \in [kind : {"join"},
            lecture_tab : BOOLEAN,
            lecture : SeqsUpTo(LectureOptions, MaxLectureRows),
            instructors : SeqsUpTo(InstructorOptions, MaxInstructorRows),
            office_hours_tab : BOOLEAN] :
        ~p.lecture_tab => p.lecture = <<>>}

InitJoin ==
    /\ BuildIdle
    /\ TimeIdle
    /\ CacheIdle
    /\ CallsIdle
    /\ sheet_parts \in JoinParts
    /\ spreadsheets = (SheetId :> [ok |-> TRUE, worksheets |-> JoinWorksheets(sheet_parts)])
    /\ fetcher = NewFetcher
    /\ call = "idle"
    /\ config = NoConfig

NextJoin == FetchCourseConfig

SpecJoin == InitJoin /\ [][NextJoin]_vars

(***************************************************************************)
(* Properties of the join.                                                 *)
(***************************************************************************)

\* the Instructors rows with a Name, in sheet order
NamedInstructorParts == SelectSeq(sheet_parts.instructors, LAMBDA p : p.name # "")

\* the sections of all period groups of mwf_sections
EmittedSections == FoldLeft(LAMBDA acc, group : acc \o group.sections, <<>>, config.mwf_sections)

\* the Lecture Sections rows whose Section cell is the identifier, and those
\* whose Section cell is the identifier once trimmed
RowsEqualTo(identifier) ==
    {j \in 1..Len(sheet_parts.lecture) : sheet_parts.lecture[j].section = identifier}
RowsTrimmedTo(identifier) ==
    {j \in 1..Len(sheet_parts.lecture) : Strip(sheet_parts.lecture[j].section) = identifier}

CarriesDetailsOf(entry, row) ==
    /\ entry.days = row.days
    /\ entry.time = row.time
    /\ entry.location = row.location

CarriesNoDetails(entry) ==
    /\ entry.days = ""
    /\ entry.time = ""
    /\ entry.location = ""

\* C6: with no Office Hours tab the call does not raise, and the instructors
\* are the Instructors rows with a Name, one record each in sheet order, every
\* record with an empty office_hours list.
C6_MissingOfficeHoursKeepsInstructors ==
    (sheet_parts.kind = "join" /\ ~sheet_parts.office_hours_tab) =>
        /\ call # "raised"
        /\ call = "returned" =>
            /\ Len(config.instructors) = Len(NamedInstructorParts)
            /\ \A i \in 1..Len(NamedInstructorParts) :
                /\ config.instructors[i].name = NamedInstructorParts[i].name
                /\ config.instructors[i].office_hours = <<>>

\* C6 witness: two named instructors and a nameless row, no Office Hours tab
C6_Witness ==
    /\ call = "returned"
    /\ ~sheet_parts.office_hours_tab
    /\ Len(sheet_parts.instructors) = 2
    /\ Len(NamedInstructorParts) = 1
    /\ Len(config.instructors) = 1
    /\ config.instructors[1].office_hours = <<>>

ListersOf(identifier) ==
    {i \in 1..Len(sheet_parts.instructors) :
        /\ sheet_parts.instructors[i].name # ""
        /\ \E n \in 1..Len(sheet_parts.instructors[i].listed) :
              sheet_parts.instructors[i].listed[n] = identifier}

\* the id of an Instructors row: its ID cell trimmed, else its name in lower
\* case with dashes for spaces
IdOfRow(p) == IF Strip(p.id) # "" THEN Strip(p.id) ELSE Replace(Lower(p.name), " ", "-")

\* the sections emitted for a Lecture Sections row
EmittedFor(row) ==
    {n \in 1..Len(EmittedSections) :
        /\ EmittedSections[n].number = row.section
        /\ EmittedSections[n].time = row.time
        /\ EmittedSections[n].location = row.location}

NamesNoInstructor(row) == row.instructor = "" \/ row.instructor = "TBD"

\* C8: a Lecture Sections row that names no instructor (empty or TBD) is
\* emitted with the name and id of a named Instructors row listing the row's
\* section identifier (the Section cell as written) when there is one, and
\* with TBD only when there is none; a row naming an instructor keeps the name.
C8_LectureSectionInstructor ==
    call = "returned" =>
        \A j \in 1..Len(sheet_parts.lecture) :
            LET row == sheet_parts.lecture[j]
            IN  row.section # "" =>
                    /\ EmittedFor(row) # {}
                    /\ \A n \in EmittedFor(row) :
                        LET e == EmittedSections[n]
                        IN  IF ~NamesNoInstructor(row)
                            THEN e.instructor = row.instructor
                            ELSE IF ListersOf(row.section) # {}
                            THEN \E i \in ListersOf(row.section) :
                                    /\ e.instructor = sheet_parts.instructors[i].name
                                    /\ e.instructor_id = IdOfRow(sheet_parts.instructors[i])
                            ELSE e.instructor = "TBD"

\* C8 witness: a row without instructor got the name and id of its lister, and
\* a row naming its instructor kept it
C8_Witness ==
    /\ call = "returned"
    /\ Len(sheet_parts.lecture) = 2
    /\ sheet_parts.lecture[1].section = "1"
    /\ sheet_parts.lecture[1].instructor = ""
    /\ sheet_parts.lecture[2].instructor = "Zed Young"
    /\ \E n \in 1..Len(EmittedSections) :
          /\ EmittedSections[n].number = "1"
          /\ EmittedSections[n].instructor = "Bo"
          /\ EmittedSections[n].instructor_id = "bo7"
    /\ \E n \in 1..Len(EmittedSections) :
          /\ EmittedSections[n].number = "2"
          /\ EmittedSections[n].instructor = "Zed Young"

\* C9: the join is symmetric. Whenever the sections of an instructor hold a
\* section with the details of a Lecture Sections row that names no instructor,
\* the section emitted for that row names this instructor.
C9_JoinIsSymmetric ==
    call = "returned" =>
        \A k \in 1..Len(NamedInstructorParts) :
            \A n \in 1..Len(NamedInstructorParts[k].listed) :
                \A j \in RowsTrimmedTo(NamedInstructorParts[k].listed[n]) :
                    LET row == sheet_parts.lecture[j]
                    IN  (/\ CarriesDetailsOf(config.instructors[k].sections[n], row)
                         /\ NamesNoInstructor(row))
                        => \A e \in EmittedFor(row) :
                              EmittedSections[e].instructor = NamedInstructorParts[k].name

\* the name each period's group is emitted under, in the order of the periods
PeriodGroupNames ==
    <<"Morning Classes", "Late Morning Class", "Afternoon Classes", "Evening Classes">>

\* the place of each emitted group's period among the periods, 0 for any other name
EmittedPeriodRanks ==
    [i \in 1..Len(config.mwf_sections) |->
        LET at == {n \in 1..Len(PeriodGroupNames) :
                      PeriodGroupNames[n] = config.mwf_sections[i].name}
        IN  IF at = {} THEN 0 ELSE CHOOSE n \in at : TRUE]

\* the places of the periods the Lecture Sections rows with a Section fall in
AssignedPeriodRanks ==
    {n \in 1..Len(period_order) :
        \E j \in 1..Len(sheet_parts.lecture) :
            /\ sheet_parts.lecture[j].section # ""
            /\ get_time_period(sheet_parts.lecture[j].time) = period_order[n]}

\* C12: the period groups come in the order Morning, Late Morning, Afternoon,
\* Evening whatever the order of the rows, each period at most once, and a
\* period is there exactly when a row with a Section was assigned to it.
C12_PeriodGroupsInFixedOrder ==
    call = "returned" =>
        /\ \A i \in 1..Len(EmittedPeriodRanks) : EmittedPeriodRanks[i] # 0
        /\ \A i, j \in 1..Len(EmittedPeriodRanks) :
              i < j => EmittedPeriodRanks[i] < EmittedPeriodRanks[j]
        /\ {EmittedPeriodRanks[i] : i \in 1..Len(EmittedPeriodRanks)} = AssignedPeriodRanks
        /\ \A i \in 1..Len(config.mwf_sections) : config.mwf_sections[i].sections # <<>>

\* C12 witness: an Evening row written above a Late Morning row, the groups
\* returned Late Morning first
C12_Witness ==
    /\ call = "returned"
    /\ Len(sheet_parts.lecture) = 2
    /\ get_time_period(sheet_parts.lecture[1].time) = "Evening"
    /\ get_time_period(sheet_parts.lecture[2].time) = "Late Morning"
    /\ Len(config.mwf_sections) = 2
    /\ config.mwf_sections[1].name = "Late Morning Class"
    /\ config.mwf_sections[2].name = "Evening Classes"

(***************************************************************************)
(* The Lecture Sections tab alone: rows whose sections and times fall in   *)
(* the same and in different periods, in every order.                      *)
(***************************************************************************)
MaxPeriodRows == 3

PeriodSections == {"", "1", "2"}

PeriodTimes == {"9:05 AM - 9:55 AM", "8:00 AM - 8:50 AM", "1:25 PM - 2:15 PM"}

PeriodOptions ==
    { [section |-> s, days |-> "MWF", time |-> t, location |-> "Osmond 101",
       instructor |-> "", instructor_id |-> ""] :
        s \in PeriodSections, t \in PeriodTimes }

PeriodParts ==
    [kind : {"join"},
     lecture_tab : {TRUE},
     lecture : SeqsUpTo(PeriodOptions, MaxPeriodRows),
     instructors : {<<>>},
     office_hours_tab : {FALSE}]

InitPeriods ==
    /\ BuildIdle
    /\ TimeIdle
    /\ CacheIdle
    /\ CallsIdle
    /\ sheet_parts \in PeriodParts
    /\ spreadsheets = (SheetId :> [ok |-> TRUE, worksheets |-> JoinWorksheets(sheet_parts)])
    /\ fetcher = NewFetcher
    /\ call = "idle"
    /\ config = NoConfig

NextPeriods == FetchCourseConfig

SpecPeriods == InitPeriods /\ [][NextPeriods]_vars

\* the Lecture Sections rows with a Section whose Time falls in the period of
\* this place among the periods, in the order of the rows
LectureRowsOfPeriod(n) ==
    SelectSeq(sheet_parts.lecture,
              LAMBDA row : row.section # "" /\ get_time_period(row.time) = period_order[n])

\* a group holds the rows of its period and no other, in their order
HoldsRowsOfItsPeriod(group, n) ==
    /\ Len(group.sections) = Len(LectureRowsOfPeriod(n))
    /\ \A k \in 1..Len(group.sections) :
          /\ group.sections[k].number = LectureRowsOfPeriod(n)[k].section
          /\ group.sections[k].time = LectureRowsOfPeriod(n)[k].time
          /\ group.sections[k].location = LectureRowsOfPeriod(n)[k].location

\* C29: every Lecture Sections row with a non-empty Section appears in
\* exactly one emitted period group, the one _get_time_period gives for its
\* Time: the number of sections over all groups is the number of such rows,
\* and within a group the sections keep the order of the rows.
C29_EveryRowInItsPeriodGroup ==
    call = "returned" =>
        /\ Len(EmittedSections) =
              Cardinality({j \in 1..Len(sheet_parts.lecture) :
                              sheet_parts.lecture[j].section # ""})
        /\ \A i \in 1..Len(config.mwf_sections) :
              /\ EmittedPeriodRanks[i] # 0
              /\ HoldsRowsOfItsPeriod(config.mwf_sections[i], EmittedPeriodRanks[i])

\* a morning row, an afternoon row and a second morning row: the second
\* morning row joins the first group, after the row that opened it
C29_Witness ==
    /\ call = "returned"
    /\ Len(sheet_parts.lecture) = 3
    /\ sheet_parts.lecture[1].section = "2"
    /\ sheet_parts.lecture[1].time = "9:05 AM - 9:55 AM"
    /\ sheet_parts.lecture[2].section = "1"
    /\ sheet_parts.lecture[2].time = "1:25 PM - 2:15 PM"
    /\ sheet_parts.lecture[3].section = "1"
    /\ sheet_parts.lecture[3].time = "8:00 AM - 8:50 AM"
    /\ Len(config.mwf_sections) = 2
    /\ Len(config.mwf_sections[1].sections) = 2
    /\ config.mwf_sections[1].sections[1].time = "9:05 AM - 9:55 AM"
    /\ config.mwf_sections[1].sections[2].time = "8:00 AM - 8:50 AM"
    /\ Len(config.mwf_sections[2].sections) = 1

(***************************************************************************)
(* The list fields: one text written into the Prerequisites value of       *)
(* Course Info, the Sections cell of an instructor and the F_Objectives    *)
(* cell of a learning target.                                              *)
(***************************************************************************)
MaxListItems == 2

\* the bullet (U+2022), written as a character no cell holds; the source's
\* delimiter is not this character but the three of BulletDelimiter
Bullet == "@"

\* what an author writes between delimiters
ListPieces == {"A", "B2", "", "- E", "--F", Bullet \o " H", "i- j", "k;l"}
ListDelimiters == {"\n", ";", "; ", "|", ", ", BulletDelimiter}

ListParts ==
    {p \in [kind : {"lists"}, items : SeqsUpTo(ListPieces, MaxListItems),
            delimiter : ListDelimiters] :
        Len(p.items) <= 1 => p.delimiter = "\n"}

\* the text written from its parts
ListText(p) == JoinStrings(p.items, p.delimiter)

ListWorksheets(p) ==
    <<Worksheet("Course Info", <<"Setting", "Value">>,
                << <<"Course Name", "Math 140B">>, <<"Prerequisites", ListText(p)>> >>),
      Worksheet("Instructors", InstructorHeader, << <<"Ann Lee", "al1", ListText(p)>> >>),
      Worksheet("Learning Targets", <<"LT ID", "Title", "F_Objectives">>,
                << <<"LT1", "Limits", ListText(p)>> >>)>>

InitLists ==
    /\ BuildIdle
    /\ TimeIdle
    /\ CacheIdle
    /\ CallsIdle
    /\ sheet_parts \in ListParts
    /\ spreadsheets = (SheetId :> [ok |-> TRUE, worksheets |-> ListWorksheets(sheet_parts)])
    /\ fetcher = NewFetcher
    /\ call = "idle"
    /\ config = NoConfig

NextLists == FetchCourseConfig

SpecLists == InitLists /\ [][NextLists]_vars

\* the three lists the configuration holds for the one text
PrerequisiteItems == config.course.prerequisites
SectionItems ==
    [i \in 1..Len(config.instructors[1].sections) |-> config.instructors[1].sections[i].number]
ObjectiveItems ==
    IF "f_objectives" \in DOMAIN config.learning_targets.targets[1]
    THEN config.learning_targets.targets[1].f_objectives
    ELSE <<>>

\* the parts of a text between semicolons, stripped, the empty ones dropped
SemicolonParts(text) ==
    SelectSeq([i \in 1..Len(Split(text, ";")) |-> Strip(Split(text, ";")[i])],
              LAMBDA part : part # "")

\* C13: a text with no newline but with semicolons yields one item per
\* semicolon-separated part in each of the three parsers (Prerequisites,
\* instructor Sections, objectives text).
C13_SemicolonsSplitEveryListField ==
    (/\ call = "returned"
     /\ ~Contains(ListText(sheet_parts), "\n")
     /\ Contains(ListText(sheet_parts), ";"))
    => /\ Len(PrerequisiteItems) = Len(SemicolonParts(ListText(sheet_parts)))
       /\ Len(SectionItems) = Len(SemicolonParts(ListText(sheet_parts)))
       /\ Len(ObjectiveItems) = Len(SemicolonParts(ListText(sheet_parts)))

\* C14: every item returned by _parse_objectives_list is non-empty, has no
\* leading or trailing whitespace and does not begin with a bullet/dash
\* marker ('-', the bullet character, '*').
C14_ObjectiveItemsAreClean ==
    call = "returned" =>
        \A i \in 1..Len(ObjectiveItems) :
            /\ ObjectiveItems[i] # ""
            /\ Strip(ObjectiveItems[i]) = ObjectiveItems[i]
            /\ CharAt(ObjectiveItems[i], 1) \notin {"-", Bullet, "*"}

\* C15: objective-list parsing is idempotent under re-splitting: the items
\* parsed from a text, joined with newlines or with "; " and parsed again,
\* are the same items.
C15_ObjectiveParsingIsIdempotent ==
    call = "returned" =>
        /\ parse_objectives_list(JoinStrings(ObjectiveItems, "\n")) = ObjectiveItems
        /\ parse_objectives_list(JoinStrings(ObjectiveItems, "; ")) = ObjectiveItems

(***************************************************************************)
(* Course Info with several rows for one Setting, read by the course       *)
(* record, the learning targets, the LA sessions and the office-hours      *)
(* embed URL.                                                              *)
(***************************************************************************)
MaxInfoRows == 2

InfoSettings ==
    {"Course Title", "Learning Targets URL", "LA Session Location", "Office Hours Embed URL"}
InfoValues == {"", "v1", "v2"}

InfoParts ==
    [kind : {"info"},
     rows : SeqsUpTo([setting : InfoSettings, value : InfoValues], MaxInfoRows)]

InfoWorksheets(p) ==
    <<Worksheet("Course Info", <<"Setting", "Value">>,
                [i \in 1..Len(p.rows) |-> <<p.rows[i].setting, p.rows[i].value>>]),
      Worksheet("LA Sessions", <<"Days", "Time">>, << <<"Mon", "3:00 PM">> >>)>>

InitInfo ==
    /\ BuildIdle
    /\ TimeIdle
    /\ CacheIdle
    /\ CallsIdle
    /\ sheet_parts \in InfoParts
    /\ spreadsheets = (SheetId :> [ok |-> TRUE, worksheets |-> InfoWorksheets(sheet_parts)])
    /\ fetcher = NewFetcher
    /\ call = "idle"
    /\ config = NoConfig

NextInfo == FetchCourseConfig

SpecInfo == InitInfo /\ [][NextInfo]_vars

\* the rows written for a setting, and the value of the last of them
InfoRowsOf(setting) == {i \in 1..Len(sheet_parts.rows) : sheet_parts.rows[i].setting = setting}
LastInfoValue(setting) ==
    sheet_parts.rows[CHOOSE i \in InfoRowsOf(setting) : \A j \in InfoRowsOf(setting) : j <= i].value

\* C16: when Course Info holds several rows with the same Setting, every
\* configuration field derived from that setting (course record field,
\* learning-targets detailed list URL, LA session location, office-hours
\* embed URL) takes the value of the last such row.
C16_LastCourseInfoRowWins ==
    call = "returned" =>
        /\ InfoRowsOf("Course Title") # {} =>
               config.course.title = LastInfoValue("Course Title")
        /\ InfoRowsOf("Learning Targets URL") # {} =>
               config.learning_targets.detailed_list_url = LastInfoValue("Learning Targets URL")
        /\ InfoRowsOf("LA Session Location") # {} =>
               config.la_sessions.location = LastInfoValue("LA Session Location")
        /\ InfoRowsOf("Office Hours Embed URL") # {} =>
               config.office_hours_embed_url = LastInfoValue("Office Hours Embed URL")

(***************************************************************************)
(* The Exams tab: rows whose Event names one slot, several slots or none.  *)
(***************************************************************************)
MaxExamRows == 2

ExamEvents ==
    {"Midterm 1", "Midterm Two", "Makeup Quiz Session", "Make-up Quiz Session, Midterm 1",
     "Final Exam", "Final Review for Midterm 2", "Review Day"}
ExamDates == {"", "Oct 1", "TBD"}

ExamParts ==
    [kind : {"exams"},
     rows : SeqsUpTo([event : ExamEvents, date : ExamDates], MaxExamRows)]

ExamWorksheets(p) ==
    <<Worksheet("Exams", <<"Event", "Date">>,
                [i \in 1..Len(p.rows) |-> <<p.rows[i].event, p.rows[i].date>>])>>

InitExams ==
    /\ BuildIdle
    /\ TimeIdle
    /\ CacheIdle
    /\ CallsIdle
    /\ sheet_parts \in ExamParts
    /\ spreadsheets = (SheetId :> [ok |-> TRUE, worksheets |-> ExamWorksheets(sheet_parts)])
    /\ fetcher = NewFetcher
    /\ call = "idle"
    /\ config = NoConfig

NextExams == FetchCourseConfig

SpecExams == InitExams /\ [][NextExams]_vars

\* the one slot of an Event, by substring match in the stated order
ExamSlot(event) ==
    IF Contains(event, "Midterm 1") \/ Contains(event, "Midterm One") THEN "midterm1"
    ELSE IF Contains(event, "Midterm 2") \/ Contains(event, "Midterm Two") THEN "midterm2"
    ELSE IF Contains(event, "Make-up Quiz Session") \/ Contains(event, "Makeup Quiz Session")
    THEN "makeup"
    ELSE IF Contains(event, "Final") THEN "final"
    ELSE "none"

\* the rows written whose slot is one of slots, in order
ExamRowsIn(slots) == SelectSeq(sheet_parts.rows, LAMBDA row : ExamSlot(row.event) \in slots)

\* the Date of the last row of a slot, or otherwise when no row has the slot
LastExamDate(slot, otherwise) ==
    IF ExamRowsIn({slot}) = <<>> THEN otherwise
    ELSE ExamRowsIn({slot})[Len(ExamRowsIn({slot}))].date

\* every row is in its one slot and in no other
ExamRowsInOneSlot ==
    /\ Len(config.exams.midterms) = Len(ExamRowsIn({"midterm1", "midterm2"}))
    /\ \A i \in 1..Len(config.exams.midterms) :
          /\ config.exams.midterms[i].date = ExamRowsIn({"midterm1", "midterm2"})[i].date
          /\ config.exams.midterms[i].name =
                IF ExamSlot(ExamRowsIn({"midterm1", "midterm2"})[i].event) = "midterm1"
                THEN "Midterm One" ELSE "Midterm Two"
    /\ Len(config.exams.makeup_quiz_sessions) = Len(ExamRowsIn({"makeup"}))
    /\ \A i \in 1..Len(config.exams.makeup_quiz_sessions) :
          /\ config.exams.makeup_quiz_sessions[i].name = ExamRowsIn({"makeup"})[i].event
          /\ config.exams.makeup_quiz_sessions[i].date = ExamRowsIn({"makeup"})[i].date
    /\ config.exams.final.date = LastExamDate("final", exams_default.final.date)

\* C17: each Exams row contributes to at most one slot, chosen by substring
\* match on its Event in the order Midterm 1/One, Midterm 2/Two,
\* Make-up/Makeup Quiz Session, Final; a row matching none leaves the result
\* unchanged; the display of a midterm is "TBD" when no row matched it and
\* the Date of the last matching row otherwise.
C17_ExamRowsClassified ==
    call = "returned" =>
        /\ ExamRowsInOneSlot
        /\ config.exams.midterm1.display = LastExamDate("midterm1", "TBD")
        /\ config.exams.midterm2.display = LastExamDate("midterm2", "TBD")

\* a row naming both Midterm 2 and Final went to the midterm only, next to a
\* row that names no slot
C17_Witness ==
    /\ call = "returned"
    /\ Len(sheet_parts.rows) = 2
    /\ sheet_parts.rows[1] = [event |-> "Final Review for Midterm 2", date |-> "Oct 1"]
    /\ sheet_parts.rows[2].event = "Review Day"
    /\ config.exams.midterm2.display = "Oct 1"
    /\ config.exams.final = exams_default.final
    /\ Len(config.exams.midterms) = 1

\* C17 as stated: the display of a midterm is "TBD" exactly when no row
\* matched that midterm.
C17_DisplayTBDExactlyWithoutRow ==
    call = "returned" =>
        /\ ExamRowsInOneSlot
        /\ config.exams.midterm1.display = "TBD" <=> ExamRowsIn({"midterm1"}) = <<>>
        /\ config.exams.midterm2.display = "TBD" <=> ExamRowsIn({"midterm2"}) = <<>>

(***************************************************************************)
(* The Grade Thresholds tab: rows for the course and for Math 197, with    *)
(* counts that are integers, blank or not numbers.                         *)
(***************************************************************************)
MaxThresholdRows == 2

ThresholdGrades == {"", "A", "B"}
ThresholdCourses == {"", "Math 197"}
\* the Number Complete and Number Proficient cells of a row
ThresholdCounts == {<<"", "">>, <<"12", "3">>, <<"12", "">>, <<"n/a", "3">>}

ThresholdParts ==
    [kind : {"thresholds"},
     rows : SeqsUpTo([grade : ThresholdGrades, course : ThresholdCourses,
                      counts : ThresholdCounts], MaxThresholdRows)]

ThresholdWorksheets(p) ==
    <<Worksheet("Grade Thresholds",
                <<"Grade", "Course", "Number Complete", "Number Proficient">>,
                [i \in 1..Len(p.rows) |->
                    <<p.rows[i].grade, p.rows[i].course,
                      p.rows[i].counts[1], p.rows[i].counts[2]>>])>>

InitThresholds ==
    /\ BuildIdle
    /\ TimeIdle
    /\ CacheIdle
    /\ CallsIdle
    /\ sheet_parts \in ThresholdParts
    /\ spreadsheets =
          (SheetId :> [ok |-> TRUE, worksheets |-> ThresholdWorksheets(sheet_parts)])
    /\ fetcher = NewFetcher
    /\ call = "idle"
    /\ config = NoConfig

NextThresholds == FetchCourseConfig

SpecThresholds == InitThresholds /\ [][NextThresholds]_vars

\* a count cell that is blank or an integer, and the value it stands for
UsableCount(text) == text = "" \/ ParseInt(text).ok
CountOf(text) == IF text = "" THEN None ELSE PyInt(ParseInt(text).val)

\* the rows with a grade and usable counts that belong to one mapping
ThresholdRowsOf(is_197) ==
    {i \in 1..Len(sheet_parts.rows) :
        /\ sheet_parts.rows[i].grade # ""
        /\ Contains(sheet_parts.rows[i].course, "197") = is_197
        /\ UsableCount(sheet_parts.rows[i].counts[1])
        /\ UsableCount(sheet_parts.rows[i].counts[2])}

\* a mapping holds each of its rows, under its grade, with its counts (those
\* of the last row of a grade), and nothing of the other mapping's rows
HoldsThresholdRows(mapping, is_197) ==
    /\ \A i \in ThresholdRowsOf(is_197) :
          /\ sheet_parts.rows[i].grade \in DOMAIN mapping
          /\ (\A j \in ThresholdRowsOf(is_197) :
                  sheet_parts.rows[j].grade = sheet_parts.rows[i].grade => j <= i)
             => mapping[sheet_parts.rows[i].grade] =
                    [complete |-> CountOf(sheet_parts.rows[i].counts[1]),
                     proficient |-> CountOf(sheet_parts.rows[i].counts[2])]
    /\ \A grade \in DOMAIN mapping :
          \E i \in 1..Len(sheet_parts.rows) :
              /\ sheet_parts.rows[i].grade = grade
              /\ Contains(sheet_parts.rows[i].course, "197") = is_197

\* C18: every Grade Thresholds row with a non-empty Grade is recorded in
\* exactly one mapping - math197_thresholds iff its Course contains "197",
\* otherwise thresholds - with its integers, or null for a blank field, and
\* a row with a blank or unusable value does not remove the other rows.
C18_ThresholdRowsRecorded ==
    call = "returned" =>
        /\ HoldsThresholdRows(config.grading.thresholds, FALSE)
        /\ HoldsThresholdRows(config.grading.math197_thresholds, TRUE)

(***************************************************************************)
(* The XP Modifications tab: missing, empty, or holding one or both of the *)
(* two settings, with values that are integers or not.                     *)
(***************************************************************************)
MaxXPMods == 3

XPPerModValues == {1, 50, 100, 250}
\* what the Value cell of a setting may hold
XPPerModCells == {ToString(k) : k \in XPPerModValues} \cup {"", "2.5", " 250 "}
XPMaxModsCells == {ToString(m) : m \in 0..MaxXPMods} \cup {"", "three", "-1"}

\* tab: "missing", "empty" (no cell), "header" (no row) or "rows"; written:
\* the settings that have a row; per, max: their Value cells
XPParts ==
    {p \in [kind : {"xp"}, tab : {"missing", "empty", "header", "rows"},
            written : SUBSET {"per", "max"}, per : XPPerModCells, max : XPMaxModsCells] :
        /\ p.tab # "rows" => p.written = {}
        /\ p.tab = "rows" => p.written # {}
        /\ "per" \notin p.written => p.per = ""
        /\ "max" \notin p.written => p.max = ""}

XPWorksheets(p) ==
    <<Worksheet("XP Activities", <<"Activity", "XP Value">>, << <<"Quiz", "10">> >>)>>
    \o (IF p.tab = "missing" THEN <<>>
        ELSE IF p.tab = "empty"
        THEN <<[title |-> "XP Modifications", values |-> <<>>, readable |-> TRUE]>>
        ELSE <<Worksheet("XP Modifications", <<"Setting", "Value">>,
                         (IF "per" \in p.written
                          THEN << <<"XP per modification", p.per>> >> ELSE <<>>)
                         \o (IF "max" \in p.written
                             THEN << <<"Maximum modifications", p.max>> >> ELSE <<>>))>>)

InitXP ==
    /\ BuildIdle
    /\ TimeIdle
    /\ CacheIdle
    /\ CallsIdle
    /\ sheet_parts \in XPParts
    /\ spreadsheets = (SheetId :> [ok |-> TRUE, worksheets |-> XPWorksheets(sheet_parts)])
    /\ fetcher = NewFetcher
    /\ call = "idle"
    /\ config = NoConfig

NextXP == FetchCourseConfig

SpecXP == InitXP /\ [][NextXP]_vars

\* every written setting is an integer; K and M are then the settings in
\* force, the defaults standing for a setting that is not written
XPSettingsUsable ==
    /\ "per" \in sheet_parts.written => ParseInt(sheet_parts.per).ok
    /\ "max" \in sheet_parts.written => ParseInt(sheet_parts.max).ok
XPK == IF "per" \in sheet_parts.written THEN ParseInt(sheet_parts.per).val ELSE 250
XPM == IF "max" \in sheet_parts.written THEN ParseInt(sheet_parts.max).val ELSE 3

XPBands == config.grading.xp.modifications

\* M+1 bands in ascending order, band i with threshold i*K, mods i, max_mods M
XPBandNumbers ==
    /\ Len(XPBands) = XPM + 1
    /\ \A i \in 0..XPM :
          /\ XPBands[i + 1].threshold = i * XPK
          /\ XPBands[i + 1].mods = i
          /\ XPBands[i + 1].max_mods = XPM

XPMiddleLabels ==
    \A i \in 1..(XPM - 1) :
        XPBands[i + 1].label =
            ToString(i * XPK) \o "-" \o ToString((i + 1) * XPK - 1) \o " XP"

\* C19: for settings K and M >= 0 the table has exactly M+1 bands in
\* ascending order; band i has threshold i*K, mods i and max_mods M; band 0
\* is labelled "Less than K XP"; for M >= 1 the last band is labelled
\* "(M*K) or more XP" and every band 0 < i < M "(i*K)-((i+1)*K-1) XP".
C19_XPBandsGenerated ==
    (call = "returned" /\ XPSettingsUsable /\ XPM >= 0) =>
        /\ XPBandNumbers
        /\ XPBands[1].label = "Less than " \o ToString(XPK) \o " XP"
        /\ XPM >= 1 => XPBands[XPM + 1].label = ToString(XPM * XPK) \o " or more XP"
        /\ XPMiddleLabels

\* K = 100 and M = 2 written in the tab: three bands, one of each label
C19_Witness ==
    /\ call = "returned"
    /\ sheet_parts.written = {"per", "max"}
    /\ sheet_parts.per = "100"
    /\ sheet_parts.max = "2"
    /\ Len(XPBands) = 3
    /\ XPBands[2].label = "100-199 XP"
    /\ XPBands[3].threshold = 200

\* C19 as stated: the last band is labelled "(M*K) or more XP" for every
\* M >= 0, the single band of M = 0 included.
C19_LastBandAlwaysOrMore ==
    (call = "returned" /\ XPSettingsUsable /\ XPM >= 0) =>
        /\ XPBandNumbers
        /\ XPBands[1].label = "Less than " \o ToString(XPK) \o " XP"
        /\ XPBands[XPM + 1].label = ToString(XPM * XPK) \o " or more XP"
        /\ XPMiddleLabels

\* the fixed table of four bands
FourBandTable ==
    <<[threshold |-> 0, mods |-> 0, label |-> "Less than 250 XP", max_mods |-> 3],
      [threshold |-> 250, mods |-> 1, label |-> "250-499 XP", max_mods |-> 3],
      [threshold |-> 500, mods |-> 2, label |-> "500-749 XP", max_mods |-> 3],
      [threshold |-> 750, mods |-> 3, label |-> "750 or more XP", max_mods |-> 3]>>

\* C20: the table generated for K = 250 and M = 3 is the fixed four-band
\* table, and whenever the settings are unavailable (tab missing, tab empty,
\* or a written value that is not an integer) the modifications list is
\* exactly that table.
C20_FallbackIsTheDefaultTable ==
    call = "returned" =>
        /\ (XPSettingsUsable /\ XPK = 250 /\ XPM = 3) => XPBands = FourBandTable
        /\ (sheet_parts.tab # "rows" \/ ~XPSettingsUsable) => XPBands = FourBandTable

\* one setting is an integer other than the default and the other is not a
\* number: the whole table is the fixed one
C20_Witness ==
    /\ call = "returned"
    /\ sheet_parts.written = {"per", "max"}
    /\ sheet_parts.per = "100"
    /\ sheet_parts.max = "three"
    /\ XPBands = FourBandTable

(***************************************************************************)
(* The Quiz Schedule tab: rows of a week and a session, in any order.      *)
(***************************************************************************)
MaxQuizRows == 2

\* Week cells: blank, two spellings of one integer, another integer, no integer
QuizWeeks == {"", "1", "2", " 2 ", "x"}
QuizSessions == {"Tuesday", "thursday quiz", "Midterm", "Make-up"}
QuizDates == {"Oct 1", "Oct 2"}

\* a row without an integer week is written with one session and one date
QuizRows ==
    {row \in [week : QuizWeeks, session : QuizSessions, date : QuizDates] :
        ~ParseInt(row.week).ok => row.session = "Tuesday" /\ row.date = "Oct 1"}

QuizParts == [kind : {"quiz"}, rows : SeqsUpTo(QuizRows, MaxQuizRows)]

QuizWorksheets(p) ==
    <<Worksheet("Quiz Schedule", <<"Week", "Session", "Date">>,
                [i \in 1..Len(p.rows) |->
                    <<p.rows[i].week, p.rows[i].session, p.rows[i].date>>])>>

InitQuiz ==
    /\ BuildIdle
    /\ TimeIdle
    /\ CacheIdle
    /\ CallsIdle
    /\ sheet_parts \in QuizParts
    /\ spreadsheets = (SheetId :> [ok |-> TRUE, worksheets |-> QuizWorksheets(sheet_parts)])
    /\ fetcher = NewFetcher
    /\ call = "idle"
    /\ config = NoConfig

NextQuiz == FetchCourseConfig

SpecQuiz == InitQuiz /\ [][NextQuiz]_vars

\* the rows written for week n whose session names a day, and the Date of the
\* last of them, "" when there is none
QuizRowsOf(n, day) ==
    {i \in 1..Len(sheet_parts.rows) :
        /\ ParseInt(sheet_parts.rows[i].week).ok
        /\ ParseInt(sheet_parts.rows[i].week).val = n
        /\ Contains(Lower(sheet_parts.rows[i].session), day)}
LastQuizDate(n, day) ==
    IF QuizRowsOf(n, day) = {} THEN ""
    ELSE sheet_parts.rows[CHOOSE i \in QuizRowsOf(n, day) :
                              \A j \in QuizRowsOf(n, day) : j <= i].date

\* the integer weeks written
QuizWeekNumbers ==
    {ParseInt(sheet_parts.rows[i].week).val :
        i \in {j \in 1..Len(sheet_parts.rows) : ParseInt(sheet_parts.rows[j].week).ok}}

\* C21: the quiz schedule holds exactly one record per distinct integer Week
\* of the rows, in strictly ascending week order whatever the order of the
\* rows; a blank or non-integer Week contributes nothing; a Tuesday/Thursday
\* row sets only the sub-record of its own day in its own week.
C21_OneRecordPerWeekAscending ==
    call = "returned" =>
        /\ {config.quiz_schedule[i].week : i \in 1..Len(config.quiz_schedule)}
              = QuizWeekNumbers
        /\ \A i \in 1..(Len(config.quiz_schedule) - 1) :
              config.quiz_schedule[i].week < config.quiz_schedule[i + 1].week
        /\ \A i \in 1..Len(config.quiz_schedule) :
              /\ config.quiz_schedule[i].tuesday_date =
                    LastQuizDate(config.quiz_schedule[i].week, "tuesday")
              /\ config.quiz_schedule[i].thursday_date =
                    LastQuizDate(config.quiz_schedule[i].week, "thursday")

\* week 2 written above week 1, a Tuesday row and a Thursday row: two
\* records, week 1 first, each with the date of its own day only
C21_Witness ==
    /\ call = "returned"
    /\ sheet_parts.rows = <<[week |-> " 2 ", session |-> "Tuesday", date |-> "Oct 2"],
                            [week |-> "1", session |-> "thursday quiz", date |-> "Oct 1"]>>
    /\ Len(config.quiz_schedule) = 2
    /\ config.quiz_schedule[1].week = 1
    /\ config.quiz_schedule[1].thursday_date = "Oct 1"
    /\ config.quiz_schedule[1].tuesday_date = ""
    /\ config.quiz_schedule[2].tuesday_date = "Oct 2"

\* the exam rows written for week n, and those of them with one date
QuizExamRowsOf(n) ==
    {i \in 1..Len(sheet_parts.rows) :
        /\ ParseInt(sheet_parts.rows[i].week).ok
        /\ ParseInt(sheet_parts.rows[i].week).val = n
        /\ Lower(Strip(sheet_parts.rows[i].session))
              \in {"midterm", "make-up midterm", "make-up", "makeup", "final"}}
FirstQuizExamRow(n, date) ==
    CHOOSE i \in QuizExamRowsOf(n) :
        /\ sheet_parts.rows[i].date = date
        /\ \A j \in QuizExamRowsOf(n) : sheet_parts.rows[j].date = date => i <= j

\* the exam sessions of a week record: one per date of the week's exam rows,
\* that of the first row with the date
ExamSessionsByDate(week) ==
    /\ \A i, j \in 1..Len(week.exam_sessions) :
          week.exam_sessions[i].date = week.exam_sessions[j].date => i = j
    /\ {week.exam_sessions[i].date : i \in 1..Len(week.exam_sessions)}
          = {sheet_parts.rows[i].date : i \in QuizExamRowsOf(week.week)}
    /\ \A i \in 1..Len(week.exam_sessions) :
          week.exam_sessions[i].session_type =
              sheet_parts.rows[FirstQuizExamRow(week.week, week.exam_sessions[i].date)].session

\* C22: in every week record no two exam_sessions entries have the same
\* date: of several exam rows with the same week and date only the first is
\* kept, while exam rows with the same date in different weeks are all kept.
C22_ExamSessionsUniqueByDate ==
    call = "returned" =>
        \A i \in 1..Len(config.quiz_schedule) : ExamSessionsByDate(config.quiz_schedule[i])

\* a midterm and a make-up of week 1 on one date: the midterm alone is kept
C22_Witness ==
    /\ call = "returned"
    /\ sheet_parts.rows = <<[week |-> "1", session |-> "Midterm", date |-> "Oct 1"],
                            [week |-> "1", session |-> "Make-up", date |-> "Oct 1"]>>
    /\ Len(config.quiz_schedule) = 1
    /\ Len(config.quiz_schedule[1].exam_sessions) = 1
    /\ config.quiz_schedule[1].exam_sessions[1].exam_type = "midterm"

(***************************************************************************)
(* The Learning Targets tab: identifiers and Essential flags.              *)
(***************************************************************************)
MaxTargetRows == 2

TargetIds == {"", "LT7", "LT8", "M140-LT7", "LT"}
TargetFlags == {"", "Yes", "X", "true", "1", "no"}

TargetParts ==
    [kind : {"targets"},
     rows : SeqsUpTo([id : TargetIds, essential : TargetFlags], MaxTargetRows)]

TargetWorksheets(p) ==
    <<Worksheet("Learning Targets", <<"LT ID", "Essential", "Title">>,
                [i \in 1..Len(p.rows) |-> <<p.rows[i].id, p.rows[i].essential, "Limits">>])>>

InitTargets ==
    /\ BuildIdle
    /\ TimeIdle
    /\ CacheIdle
    /\ CallsIdle
    /\ sheet_parts \in TargetParts
    /\ spreadsheets = (SheetId :> [ok |-> TRUE, worksheets |-> TargetWorksheets(sheet_parts)])
    /\ fetcher = NewFetcher
    /\ call = "idle"
    /\ config = NoConfig

NextTargets == FetchCourseConfig

SpecTargets == InitTargets /\ [][NextTargets]_vars

\* the digits an identifier ends with
RECURSIVE TrailingDigits(_)
TrailingDigits(id) ==
    IF id = "" \/ ~IsDigit(CharAt(id, Len(id))) THEN ""
    ELSE TrailingDigits(SubSeq(id, 1, Len(id) - 1)) \o CharAt(id, Len(id))

\* the rows that are essential targets with a numeric suffix, in order
EssentialRows ==
    SelectSeq(sheet_parts.rows,
              LAMBDA row : /\ row.id # ""
                           /\ Lower(row.essential) \in {"true", "yes", "1", "x"}
                           /\ TrailingDigits(row.id) # "")

\* C23: every Learning Targets row with a non-empty id whose Essential value
\* is "true", "yes", "1" or "x" in any letter case adds the trailing number
\* of its identifier to the essential list exactly once, also when the
\* identifier contains other digits; the other rows add nothing.
C23_EssentialIsTrailingNumber ==
    call = "returned" =>
        config.learning_targets.essential =
            [i \in 1..Len(EssentialRows) |-> ParseInt(TrailingDigits(EssentialRows[i].id)).val]

\* C24: the identifier is unique within the course: no two entries of
\* targets have the same id and essential holds no number twice.
C24_TargetIdsUnique ==
    call = "returned" =>
        /\ \A i, j \in 1..Len(config.learning_targets.targets) :
              config.learning_targets.targets[i].id = config.learning_targets.targets[j].id
                  => i = j
        /\ \A i, j \in 1..Len(config.learning_targets.essential) :
              config.learning_targets.essential[i] = config.learning_targets.essential[j]
                  => i = j

(***************************************************************************)
(* One learning target with a detail field written under its three column  *)
(* names.                                                                  *)
(***************************************************************************)
\* the detail fields, and the three column names of each: underscore form,
\* space form, long form
DetailFields == {"f_description", "f_objectives", "adv_description", "adv_objectives"}
DetailAliases(field) ==
    IF field = "f_description"
    THEN <<"F_Description", "F Description", "Foundational Description">>
    ELSE IF field = "f_objectives"
    THEN <<"F_Objectives", "F Objectives", "Foundational Objectives">>
    ELSE IF field = "adv_description"
    THEN <<"Adv_Description", "Adv Description", "Advanced Description">>
    ELSE <<"Adv_Objectives", "Adv Objectives", "Advanced Objectives">>
DetailCells == {"", "p", "q", "r"}

AliasParts == [kind : {"aliases"}, field : DetailFields, cells : [1..3 -> DetailCells]]

AliasWorksheets(p) ==
    <<Worksheet("Learning Targets", <<"LT ID", "Title">> \o DetailAliases(p.field),
                << <<"LT1", "Limits">> \o p.cells >>)>>

InitAliases ==
    /\ BuildIdle
    /\ TimeIdle
    /\ CacheIdle
    /\ CallsIdle
    /\ sheet_parts \in AliasParts
    /\ spreadsheets = (SheetId :> [ok |-> TRUE, worksheets |-> AliasWorksheets(sheet_parts)])
    /\ fetcher = NewFetcher
    /\ call = "idle"
    /\ config = NoConfig

NextAliases == FetchCourseConfig

SpecAliases == InitAliases /\ [][NextAliases]_vars

\* the first non-empty of the three cells, "" when all are empty
FirstAliasCell ==
    IF sheet_parts.cells[1] # "" THEN sheet_parts.cells[1]
    ELSE IF sheet_parts.cells[2] # "" THEN sheet_parts.cells[2]
    ELSE sheet_parts.cells[3]

\* C25: for each learning-target detail field the three alias columns map to
\* the same output field: it takes the first non-empty alias in the order
\* underscore form, space form, long form, is the same whichever single
\* column carries the value, and is absent only when all three are empty.
C25_AliasesMapToOneField ==
    call = "returned" =>
        /\ Len(config.learning_targets.targets) = 1
        /\ \A field \in DetailFields \ {sheet_parts.field} :
              field \notin DOMAIN config.learning_targets.targets[1]
        /\ sheet_parts.field \in DOMAIN config.learning_targets.targets[1]
              <=> FirstAliasCell # ""
        /\ FirstAliasCell # "" =>
              config.learning_targets.targets[1][sheet_parts.field] =
                  IF sheet_parts.field \in {"f_objectives", "adv_objectives"}
                  THEN <<FirstAliasCell>> ELSE FirstAliasCell

\* the space form and the long form carry different advanced objectives and
\* the underscore form is empty: the space form is taken
C25_Witness ==
    /\ call = "returned"
    /\ sheet_parts.field = "adv_objectives"
    /\ sheet_parts.cells = <<"", "q", "r">>
    /\ config.learning_targets.targets[1].adv_objectives = <<"q">>

(***************************************************************************)
(* _prefetch_all_worksheets and get_all_records called on their own, in    *)
(* any order, on one fetcher and two spreadsheets whose cells are edited   *)
(* between the calls.  Every spreadsheet has the tabs Course Info and      *)
(* Exams; every row names its spreadsheet and the version of its cells.    *)
(***************************************************************************)
MaxEdits == 1

OtherSheetId == "S2"
SheetIds == {SheetId, OtherSheetId}
CallTabs == {"Course Info", "Exams", "Grades"}

\* ok: whether the spreadsheet opens; readable: whether its Exams tab can be
\* read; version: how often its cells were edited
CallParts ==
    [kind : {"calls"}, ok : [SheetIds -> BOOLEAN], readable : [SheetIds -> BOOLEAN],
     version : [SheetIds -> {0}]]

CallSpreadsheet(p, s) ==
    [ok |-> p.ok[s],
     worksheets |->
        <<Worksheet("Course Info", <<"Sheet", "Version">>,
                    << <<s, ToString(p.version[s])>> >>),
          [title |-> "Exams",
           values |-> <<<<"Sheet", "Version">>, <<s, ToString(p.version[s])>>>>,
           readable |-> p.readable[s]]>>]

InitCalls ==
    /\ BuildIdle
    /\ TimeIdle
    /\ CacheIdle
    /\ CallsIdle
    /\ sheet_parts \in CallParts
    /\ spreadsheets = [s \in SheetIds |-> CallSpreadsheet(sheet_parts, s)]
    /\ fetcher = NewFetcher
    /\ call = "idle"
    /\ config = NoConfig

\* _prefetch_all_worksheets(s); before: the fetcher before the call;
\* repeated: the call before it was for the same spreadsheet and succeeded;
\* snapshot: the cells of s at the first of these
PrefetchAllWorksheets ==
    \E s \in SheetIds :
        \E r \in {prefetch_all_worksheets(fetcher, spreadsheets, s)} :
            /\ fetcher' = r.fetcher
            /\ prefetch' =
                  [kind |-> "called", sheet |-> s, exc |-> r.exc, fetched |-> r.fetched,
                   before |-> fetcher, unchanged |-> r.fetcher = fetcher,
                   repeated |-> prefetch.kind = "called" /\ prefetch.sheet = s /\ ~prefetch.exc,
                   snapshot |->
                      IF prefetch.kind = "called" /\ prefetch.sheet = s /\ ~prefetch.exc
                      THEN prefetch.snapshot
                      ELSE [version |-> sheet_parts.version[s],
                            readable |-> sheet_parts.readable[s]]]
            /\ UNCHANGED <<spreadsheets, call, config, sheet_parts, served,
                           cacheVars, timeVars, buildVars>>

\* get_all_records(s, tab); after: the prefetch call made last before it
GetAllRecords ==
    \E s \in SheetIds, tab \in CallTabs :
        \E r \in {get_all_records(fetcher, spreadsheets, s, tab)} :
            /\ served' = [kind |-> "called", sheet |-> s, tab |-> tab, exc |-> r.exc,
                          val |-> IF r.exc THEN <<>> ELSE r.val,
                          cached |-> answered_from_cache(fetcher, s, tab),
                          after |-> prefetch]
            /\ UNCHANGED <<sheetVars, prefetch, cacheVars, timeVars, buildVars>>

\* somebody edits the cells of a spreadsheet
EditSpreadsheet ==
    \E s \in SheetIds :
        /\ sheet_parts.version[SheetId] + sheet_parts.version[OtherSheetId] < MaxEdits
        /\ sheet_parts' = [sheet_parts EXCEPT !.version[s] = @ + 1]
        /\ spreadsheets' = [spreadsheets EXCEPT ![s] = CallSpreadsheet(sheet_parts', s)]
        /\ UNCHANGED <<fetcher, call, config, callVars, cacheVars, timeVars, buildVars>>

NextCalls == PrefetchAllWorksheets \/ GetAllRecords \/ EditSpreadsheet

SpecCalls == InitCalls /\ [][NextCalls]_vars

\* the records of a tab whose cells have this version
CallRecords(s, version) == << << <<"Sheet", s>>, <<"Version", ToString(version)>> >> >>

\* the last get_all_records call came after a successful prefetch of its own
\* spreadsheet and asked for one of its tabs
ServedAfterPrefetch ==
    /\ served.kind = "called"
    /\ served.after.kind = "called"
    /\ served.after.sheet = served.sheet
    /\ ~served.after.exc
    /\ served.tab \in {"Course Info", "Exams"}

\* C26: once _prefetch_all_worksheets(S) has succeeded, get_all_records(S,
\* tab) for a tab of S is answered from the cache with no network call, and
\* a repeated _prefetch_all_worksheets(S) performs no fetch and leaves the
\* cache unchanged; a tab whose fetch failed during the prefetch is cached
\* as an empty list and served as such.
C26_ServedFromCacheAfterPrefetch ==
    /\ ServedAfterPrefetch =>
          /\ served.cached
          /\ ~served.exc
          /\ served.val =
                IF served.tab = "Exams" /\ ~served.after.snapshot.readable THEN <<>>
                ELSE CallRecords(served.sheet, served.after.snapshot.version)
    /\ (prefetch.kind = "called" /\ prefetch.repeated) =>
          ~prefetch.fetched /\ prefetch.unchanged

\* the cells were edited after the prefetch, the prefetch was repeated, and
\* the call is served the cells of before the edit
C26_Witness ==
    /\ ServedAfterPrefetch
    /\ served.after.repeated
    /\ served.tab = "Course Info"
    /\ sheet_parts.version[served.sheet] = 1
    /\ served.val = CallRecords(served.sheet, 0)

\* C28: get_all_records(S, tab) never returns records fetched from a sheet
\* other than S, also after a prefetch of another sheet that raised.
C28_ServedFromTheSheetAsked ==
    (served.kind = "called" /\ ~served.exc) =>
        \A i \in 1..Len(served.val) : Get(served.val[i], "Sheet", "") = served.sheet

\* the first spreadsheet is in the cache, the prefetch of the second one
\* raises, and a call for a tab of the second one then raises as well
C28_Witness ==
    /\ served.kind = "called"
    /\ served.sheet = OtherSheetId
    /\ served.tab = "Course Info"
    /\ served.after.kind = "called"
    /\ served.after.sheet = OtherSheetId
    /\ served.after.exc
    /\ served.after.before.sheet_id = SheetId
    /\ "Course Info" \in DOMAIN served.after.before.cache
    /\ served.exc

(***************************************************************************)
(* The Important Dates tab: rows of an Event and a Date, in every order.   *)
(***************************************************************************)
MaxDateRows == 2

DateEvents ==
    {"Regular Drop Deadline", "Late Drop Deadline", "Late Drop", "Finals Week",
     "Classes Begin"}

DateTexts == {"Friday, January 23", "April 10"}

DateParts ==
    [kind : {"dates"},
     rows : SeqsUpTo([event : DateEvents, date : DateTexts], MaxDateRows)]

DateWorksheets(p) ==
    <<Worksheet("Important Dates", <<"Event", "Date">>,
                [i \in 1..Len(p.rows) |-> <<p.rows[i].event, p.rows[i].date>>])>>

InitDates ==
    /\ BuildIdle
    /\ TimeIdle
    /\ CacheIdle
    /\ CallsIdle
    /\ sheet_parts \in DateParts
    /\ spreadsheets = (SheetId :> [ok |-> TRUE, worksheets |-> DateWorksheets(sheet_parts)])
    /\ fetcher = NewFetcher
    /\ call = "idle"
    /\ config = NoConfig

NextDates == FetchCourseConfig

SpecDates == InitDates /\ [][NextDates]_vars

\* the rows whose Event names the late drop, and the rows that name a drop
\* but not the late one
LateDropRows ==
    SelectSeq(sheet_parts.rows, LAMBDA row : Contains(Lower(row.event), "late drop"))

RegularDropRows ==
    SelectSeq(sheet_parts.rows,
              LAMBDA row : /\ ~Contains(Lower(row.event), "late drop")
                           /\ \/ Contains(Lower(row.event), "regular drop")
                              \/ Contains(Lower(row.event), "drop deadline"))

\* the short date of the last of these rows, empty when there is none
LastShortDate(rows) ==
    IF rows = <<>> THEN "" ELSE format_short_date(rows[Len(rows)].date)

\* C30: a row of Important Dates is classified by its most specific label: a
\* row whose Event contains 'late drop' sets late_drop and never
\* regular_drop, so regular_drop comes from the last regular-drop row and
\* late_drop from the last late-drop row, whatever the order of the rows.
C30_LateDropRowsSetLateDrop ==
    call = "returned" =>
        /\ config.important_dates.late_drop = LastShortDate(LateDropRows)
        /\ config.important_dates.regular_drop = LastShortDate(RegularDropRows)

(***************************************************************************)
(* The course spreadsheet: for each of the thirteen tabs the fetchers      *)
(* read, the tab as a course keeps it ("data"), the tab with cells the     *)
(* fetchers cannot use ("odd"), the tab with its header row only           *)
(* ("empty"), or no such tab ("missing").                                  *)
(***************************************************************************)
Tabs ==
    <<"Course Info", "Lecture Sections", "Instructors", "Office Hours",
      "Session Configuration", "Exams", "Important Dates", "Grade Thresholds",
      "XP Activities", "XP Modifications", "Learning Targets", "Quiz Schedule",
      "LA Sessions">>

TabHeader(tab) ==
    CASE tab = "Course Info" -> <<"Setting", "Value">>
      [] tab = "Lecture Sections" -> LectureHeader
      [] tab = "Instructors" -> <<"Name", "ID", "Sections", "Pronouns">>
      [] tab = "Office Hours" -> OfficeHoursHeader
      [] tab = "Session Configuration" -> <<"Session Type", "Identifier", "Time", "Location">>
      [] tab = "Exams" -> <<"Event", "Date", "Time", "Location">>
      [] tab = "Important Dates" -> <<"Event", "Date">>
      [] tab = "Grade Thresholds" ->
            <<"Grade", "Course", "Number Complete", "Number Proficient">>
      [] tab = "XP Activities" -> <<"Activity", "XP Value", "Details">>
      [] tab = "XP Modifications" -> <<"Setting", "Value">>
      [] tab = "Learning Targets" ->
            <<"LT ID", "Essential", "Title", "F_Description", "F_Objectives", "Notes">>
      [] tab = "Quiz Schedule" ->
            <<"Week", "Session", "Date", "Learning Targets", "New LTs", "Notes">>
      [] tab = "LA Sessions" -> <<"Days", "Time">>

\* the rows of a tab as a course keeps it
DataRows(tab) ==
    CASE tab = "Course Info" ->
            << <<"Course Name", "Math 140b">>,
               <<"Course Title", "Calculus With Analytic Geometry I">>,
               <<"Includes Math 197", "Yes">>,
               <<"Prerequisites", "MATH 22 | MATH 26">>,
               <<"Course Hub URL", "https://hub">>,
               <<"LA Session Location", "Boucke 205">>,
               <<"Office Hours Embed URL", "https://cal">> >>
      [] tab = "Lecture Sections" ->
            << <<"1", "MWF", "9:05 AM - 9:55 AM", "Osmond 101", "", "">>,
               <<"2", "MWF", "1:25 PM - 2:15 PM", "Thomas 102", "Zed Young", "zy1">> >>
      [] tab = "Instructors" ->
            << <<"Ann Lee", "", "1", "she/her">>, <<"Bo", "bo7", "1, 2", "">> >>
      [] tab = "Office Hours" -> << <<"Ann Lee", "Mon", "2:30 PM", "McAllister 104">> >>
      [] tab = "Session Configuration" ->
            << <<"Recitation", "1R", "8:00 AM", "Sackett 5">>,
               <<"Thursday Quiz Hour", "", "6:00 PM", "Forum 111">> >>
      [] tab = "Exams" ->
            << <<"Midterm 1", "Tuesday, Feb 17", "6:15 PM", "Forum 111">>,
               <<"Final Exam", "TBA", "", "">> >>
      [] tab = "Important Dates" ->
            << <<"Regular Drop Deadline", "Friday, January 23">>,
               <<"Late Drop Deadline", "Friday, April 10">>,
               <<"Finals Week", "May 4-8">> >>
      [] tab = "Grade Thresholds" ->
            << <<"A", "", "24", "20">>, <<"B", "", "20", "">>, <<"A", "Math 197", "25", "22">> >>
      [] tab = "XP Activities" -> << <<"Homework", "10", "per set">> >>
      [] tab = "XP Modifications" ->
            << <<"XP per modification", "100">>, <<"Maximum modifications", "2">> >>
      [] tab = "Learning Targets" ->
            << <<"LT1", "Yes", "Limits", "Evaluate limits", "a; b", "">>,
               <<"LT2", "", "Derivatives", "", "", "see notes">> >>
      [] tab = "Quiz Schedule" ->
            << <<"1", "Tuesday", "1/13", "LT1", "LT1", "">>,
               <<"1", "Thursday", "1/15", "LT1, LT2", "LT2", "">>,
               <<"6", "Midterm", "2/17", "LT1, LT2", "", "evening">> >>
      [] tab = "LA Sessions" -> << <<"Tue", "6:00 PM - 8:00 PM">> >>

\* rows with cells the fetcher of the tab cannot use: a threshold, an XP
\* setting and a week number that are not numbers, rows without their key cell
OddRows(tab) ==
    CASE tab = "Course Info" ->
            << <<"", "">>, <<"Term", "">>, <<"Course Title", "Calculus \"I\" \\ II">> >>
      [] tab = "Lecture Sections" ->
            << <<"7", "", "noon", "", "TBD", "">>, <<"", "MWF", "", "", "", "">> >>
      [] tab = "Instructors" -> << <<"", "x1", "1", "">>, <<"Cy Day", " ", ";", "">> >>
      [] tab = "Office Hours" -> << <<" ", "Mon", "", "">> >>
      [] tab = "Session Configuration" -> << <<"", "", "", "">>, <<"Lab", "R", "", "">> >>
      [] tab = "Exams" -> << <<"Quiz", "", "", "">>, <<"Midterm 2", "", "", "">> >>
      [] tab = "Important Dates" -> << <<"late drop", "">>, <<"", "Monday, May 4">> >>
      [] tab = "Grade Thresholds" ->
            << <<"A", "", "24", "20">>, <<"B", "", "many", "">>, <<"C", "", "12", "">> >>
      [] tab = "XP Activities" -> << <<"", "10", "">> >>
      [] tab = "XP Modifications" ->
            << <<"XP per modification", "lots">>, <<"Maximum modifications", "2">> >>
      [] tab = "Learning Targets" ->
            << <<"LTX", "x", "No number", "", "-", "">>, <<"", "Yes", "No id", "", "", "">> >>
      [] tab = "Quiz Schedule" ->
            << <<"one", "Tuesday", "1/13", "LT1", "", "">>,
               <<"2", "", "", ",", "", "">> >>
      [] tab = "LA Sessions" -> << <<"Tue", "">>, <<"", "5:00 PM">> >>

TabStates == {"data", "odd", "empty", "missing"}

\* the worksheets of a spreadsheet whose tabs are in the given states
TabWorksheets(states) ==
    Comprehend(
        LAMBDA tab : Worksheet(tab, TabHeader(tab),
                               IF states[tab] = "data" THEN DataRows(tab)
                               ELSE IF states[tab] = "odd" THEN OddRows(tab)
                               ELSE <<>>),
        LAMBDA tab : states[tab] # "missing",
        Tabs)

TabSet == {Tabs[i] : i \in 1..Len(Tabs)}

\* at most this many tabs are in another state than the rest
MaxDeviating == 1

\* all tabs in one state but for the deviating ones
TabAssignments ==
    UNION { { [tab \in TabSet |-> IF tab \in D THEN choice[tab] ELSE base] :
                choice \in [D -> TabStates \ {base}] } :
            <<base, D>> \in TabStates \X {D \in SUBSET TabSet : Cardinality(D) <= MaxDeviating} }

\* the spreadsheet opens or not; one that does not open has no tabs to read
TabParts ==
    {p \in [kind : {"tabs"}, opens : BOOLEAN, tabs : TabAssignments] :
        ~p.opens => \A tab \in TabSet : p.tabs[tab] = "missing"}

InitTabs ==
    /\ BuildIdle
    /\ TimeIdle
    /\ CacheIdle
    /\ CallsIdle
    /\ sheet_parts \in TabParts
    /\ spreadsheets = (SheetId :> [ok |-> sheet_parts.opens,
                                   worksheets |-> TabWorksheets(sheet_parts.tabs)])
    /\ fetcher = NewFetcher
    /\ call = "idle"
    /\ config = NoConfig

\* the term directory and course name the configuration is cached under
CacheTerm == "sp26"
CacheCourse == "math140b"

\* save_config_to_cache(term, course, config) on the fetched configuration
SaveConfigToCache ==
    /\ call = "returned"
    /\ cache_file_of(CacheTerm, CacheCourse) \notin DOMAIN files
    /\ files' = save_config_to_cache(files, CacheTerm, CacheCourse, py_config(config))
    /\ UNCHANGED <<sheetVars, loaded, timeVars, buildVars, callVars>>

\* load_config_from_cache(term, course)
LoadConfigFromCache ==
    /\ loaded = NotLoaded
    /\ loaded' = load_config_from_cache(files, CacheTerm, CacheCourse)
    /\ UNCHANGED <<sheetVars, files, timeVars, buildVars, callVars>>

NextTabs ==
    \/ FetchCourseConfig
    \/ SaveConfigToCache
    \/ LoadConfigFromCache

SpecTabs == InitTabs /\ [][NextTabs]_vars

(***************************************************************************)
(* Properties of fetch_course_config and of the JSON cache.                *)
(***************************************************************************)
TabIs(tab, state) == sheet_parts.tabs[tab] = state

TopLevelKeys ==
    {"course", "instructors", "mwf_sections", "tuesday_sections", "exams",
     "important_dates", "policies", "grading", "learning_targets", "quiz_schedule",
     "la_sessions", "office_hours_embed_url"}

\* C3: a returned configuration has exactly the twelve top-level keys.
C3_TopLevelKeySet ==
    call = "returned" => DOMAIN config = TopLevelKeys

\* C3 witness: a configuration returned without a Course Info tab, the
\* office-hours URL empty
C3_Witness ==
    /\ call = "returned"
    /\ TabIs("Course Info", "missing")
    /\ TabIs("Instructors", "data")
    /\ config.office_hours_embed_url = ""

\* C4: the key set of each record-valued entry is the same whether its tab
\* holds data, is empty or is missing.
C4_NestedKeySetsFixed ==
    call = "returned" =>
        /\ DOMAIN config.course =
              {"code", "title", "term", "includes_math197", "course_hub_url", "prerequisites"}
        /\ DOMAIN config.exams =
              {"midterms", "final", "midterm1", "midterm2", "makeup_quiz_sessions"}
        /\ DOMAIN config.important_dates =
              {"all", "regular_drop", "late_drop", "finals_week"}
        /\ DOMAIN config.grading = {"thresholds", "math197_thresholds", "xp"}
        /\ DOMAIN config.learning_targets =
              {"total", "detailed_list_url", "essential", "targets"}
        /\ DOMAIN config.la_sessions = {"location", "schedule"}

\* C5: a load that finds the cache file save_config_to_cache wrote returns a
\* configuration equal to the one saved, None thresholds included.
C5_CacheRoundTrip ==
    [][(/\ loaded = NotLoaded
        /\ loaded' # NotLoaded
        /\ cache_file_of(CacheTerm, CacheCourse) \in DOMAIN files)
       => loaded' = Ok(py_config(config))]_vars

\* C5 witness: a configuration with a None threshold count was loaded back
C5_Witness ==
    /\ loaded # NotLoaded
    /\ ~loaded.exc
    /\ TabIs("Grade Thresholds", "data")
    /\ config.grading.thresholds["B"].proficient = None
    /\ loaded.val = py_config(config)

(***************************************************************************)
(* main: the command line, the course list, the batch loop.                *)
(***************************************************************************)
MaxCourses == 3

CourseNames == <<"math140b", "math141b", "math198", "math220", "math230">>

\* the course lists: the first courses by name, each with a fault
CourseLists ==
    UNION {{[i \in 1..n |-> [name |-> CourseNames[i], fault |-> faults[i]]] :
              faults \in [1..n -> Faults]} : n \in 0..MaxCourses}

\* the positional course argument: none, term/course, or a bare course
CourseArguments == {"", "sp26/math140b", "math140b"}

CommandLines ==
    [kind : {"argv"}, course : CourseArguments, list : BOOLEAN, clean : BOOLEAN,
     from_sheets : BOOLEAN, from_cache : BOOLEAN, save_cache : BOOLEAN]

InitBuild ==
    /\ SheetsIdle
    /\ CacheIdle
    /\ CallsIdle
    /\ TimeIdle
    /\ args \in CommandLines
    /\ courses \in CourseLists
    /\ docs = {"math140b"}
    /\ pc = "start"
    /\ index = 0
    /\ results = <<>>

\* the course of the list with this name, a course missing when not listed
CourseNamed(name) ==
    LET at == {i \in 1..Len(courses) : courses[i].name = name}
    IN  IF at = {} THEN [name |-> name, fault |-> "missing"]
        ELSE courses[CHOOSE i \in at : TRUE]

\* the entry of results for one build_course invocation
ResultOf(course, r) ==
    [course |-> course.name,
     outcome |-> IF r.exc THEN "raised" ELSE IF r.val THEN "built" ELSE "failed",
     cached |-> r.cached]

\* the output directory after --clean, if asked for
Cleaned == IF args.clean THEN {} ELSE docs

\* main with --list: prints the courses and returns
ListCourses ==
    /\ pc = "start"
    /\ args.list
    /\ pc' = "returned"
    /\ UNCHANGED <<args, courses, docs, index, results, sheetVars, cacheVars, timeVars, callVars>>

\* main with a course argument: builds that course, or returns on a bad one
BuildSpecificCourse ==
    /\ pc = "start"
    /\ ~args.list
    /\ args.course # ""
    /\ LET parts == Split(args.course, "/")
       IN  IF Len(parts) # 2
           THEN /\ pc' = "returned"
                /\ docs' = Cleaned
                /\ UNCHANGED results
           ELSE \E r \in {build_course(CourseNamed(parts[2]), args.from_sheets,
                                       args.from_cache, args.save_cache)} :
                    /\ results' = Append(results, ResultOf(CourseNamed(parts[2]), r))
                    /\ docs' = IF r.pages THEN Cleaned \cup {parts[2]} ELSE Cleaned
                    /\ pc' = IF r.exc THEN "crashed" ELSE "complete"
    /\ UNCHANGED <<args, courses, index, sheetVars, cacheVars, timeVars, callVars>>

\* main without a course argument: cleans, lists the courses, starts the loop
StartBatch ==
    /\ pc = "start"
    /\ ~args.list
    /\ args.course = ""
    /\ docs' = Cleaned
    /\ IF courses = <<>>
       THEN pc' = "returned" /\ UNCHANGED index
       ELSE pc' = "building" /\ index' = 1
    /\ UNCHANGED <<args, courses, results, sheetVars, cacheVars, timeVars, callVars>>

\* one turn of the loop over the courses: an exception of build_course leaves main
BuildNextCourse ==
    /\ pc = "building"
    /\ index <= Len(courses)
    /\ \E r \in {build_course(courses[index], args.from_sheets, args.from_cache,
                              args.save_cache)} :
          /\ results' = Append(results, ResultOf(courses[index], r))
          /\ docs' = IF r.pages THEN docs \cup {courses[index].name} ELSE docs
          /\ IF r.exc
             THEN pc' = "crashed" /\ UNCHANGED index
             ELSE pc' = "building" /\ index' = index + 1
    /\ UNCHANGED <<args, courses, sheetVars, cacheVars, timeVars, callVars>>

\* the loop is over: "Build complete!"
BuildComplete ==
    /\ pc = "building"
    /\ index > Len(courses)
    /\ pc' = "complete"
    /\ UNCHANGED <<args, courses, docs, index, results, sheetVars, cacheVars, timeVars, callVars>>

NextBuild ==
    \/ ListCourses
    \/ BuildSpecificCourse
    \/ StartBatch
    \/ BuildNextCourse
    \/ BuildComplete

SpecBuild == InitBuild /\ [][NextBuild]_vars

\* C27: build_course writes the JSON cache file of a course only when
\* from_sheets and save_cache are set, from_cache is not set and the Sheets
\* load succeeded; from_cache takes precedence over from_sheets, and in YAML
\* mode, in cache mode and on any load failure the file is left unchanged.
C27_CacheWrittenOnlyFromSheets ==
    \A i \in 1..Len(results) :
        /\ results[i].cached =>
              /\ args.from_sheets /\ args.save_cache /\ ~args.from_cache
              /\ CourseNamed(results[i].course).fault \notin {"missing", "unloadable"}
        /\ args.from_cache => ~results[i].cached
        /\ ~args.from_sheets => ~results[i].cached
        /\ results[i].outcome = "failed" => ~results[i].cached

\* --from-cache, --from-sheets and --save-cache together: the course is built
\* from the cache and its cache file is not written
C27_Witness ==
    /\ args.from_cache /\ args.from_sheets /\ args.save_cache
    /\ Len(results) >= 1
    /\ results[1].outcome = "built"
    /\ ~results[1].cached

\* C2: in a batch build, main stops only after build_course was invoked for
\* every course of the list, whatever failed while building an earlier one.
C2_BatchBuildsEveryCourse ==
    (args.course = "" /\ ~args.list /\ pc \in {"complete", "crashed"}) =>
        /\ Len(results) = Len(courses)
        /\ \A i \in 1..Len(courses) : results[i].course = courses[i].name

=============================================================================
